---- MODULE Spec2Model ----
(***************************************************************************)
(* Model of nlk-term.  Spec is the git panel                               *)
(* (src/src/components/GitPanel.vue): the refresh coordinator              *)
(* (refreshInFlight / refreshQueued), the diff token, and the stage /      *)
(* commit / remote / checkout handlers.  PaneSpec is a terminal pane       *)
(* (src/src/components/TerminalPane.vue) with the session registry and the *)
(* event channel of the backend.  ShellSpec is the working-directory       *)
(* lookup of the application shell (App.vue), WorkSpec its projects and    *)
(* tabs and the panes rendered for them.                                   *)
(*                                                                         *)
(* The panel runs on one JavaScript event loop.  One step of the model is  *)
(* one job of that loop: a handler called by the user interface or by a    *)
(* watcher, run up to the point where it is suspended on an await; the     *)
(* completion of an invoked command, which resumes the async function      *)
(* that awaited it; or the resumption of the async function that awaited   *)
(* one that has just returned.  Commands in flight are kept in `inflight`, *)
(* each with the frames of the async functions suspended on it.  `ready`   *)
(* is the function whose awaited promise has settled and that runs next,   *)
(* before the event loop takes any other event.                            *)
(*                                                                         *)
(* A handler is called from the template.  A condition of a `disabled`     *)
(* binding that the handler tests again itself is left to the handler, so  *)
(* that its early return is a step of the model; a condition the handler   *)
(* does not test (refresh button, stage / unstage buttons of a row) is the *)
(* guard of the action.                                                    *)
(***************************************************************************)
EXTENDS Integers, Sequences, FiniteSets, TLC

VARIABLES
    open, repoPath,                     \* props
    loading, loadingDiff, error, status, selectedPath, diffContainer,
    lastRepoPath, actionPath, actionLoading, commitLoading, commitMessage,
    remoteLoading, remoteAction, branchLoading, checkoutLoading, branches,
    currentBranch, branchModalOpen, branchQuery,
    diffInstance, refreshInFlight, refreshQueued, diffToken,
    inflight,                           \* invoked commands not yet completed
    ready,                              \* the continuation that runs next
    ev,                                 \* the turn of the event loop just taken
    hist,                               \* what has been issued so far
    pane,                               \* the terminal pane of one tab
    backend,                            \* session registry and event channel
    plog,                               \* what the pane sent, received and wrote
    shell,                              \* the application shell
    work                                \* the workspace and its panes

gitVars == << open, repoPath, loading, loadingDiff, error, status, selectedPath,
           diffContainer, lastRepoPath, actionPath, actionLoading,
           commitLoading, commitMessage, remoteLoading, remoteAction,
           branchLoading, checkoutLoading, branches, currentBranch,
           branchModalOpen, branchQuery, diffInstance, refreshInFlight,
           refreshQueued, diffToken, inflight, ready, ev, hist >>

paneVars == << pane, backend, plog >>

vars == << gitVars, paneVars, shell, work >>

----------------------------------------------------------------------------
(* Bounds *)

\* turns started by the user interface or by a prop change
MaxEvents == 3
\* commands in flight at the same time
MaxInflight == 2
\* turns started by the user interface in the specification with fairness
MaxLiveEvents == 2
\* steps of the pane started by the user, the window or the backend
MaxPaneEvents == 4
\* events delivered to the listeners of the pane
MaxArrivals == 3
\* steps of the shell started by the user or the polling interval
MaxShellEvents == 4
\* terminal_cwd commands in flight at the same time
MaxCwdRequests == 2
\* handlers of the workspace run
MaxWorkEvents == 4

----------------------------------------------------------------------------
(* Values *)

NULL == "null"

Repos == {"r1"}

\* strings whose content is inspected are sequences of characters
RECURSIVE TrimStart(_)
TrimStart(s) ==
    IF s # << >> /\ Head(s) = " " THEN TrimStart(Tail(s)) ELSE s

RECURSIVE TrimEnd(_)
TrimEnd(s) ==
    IF s # << >> /\ s[Len(s)] = " " THEN TrimEnd(SubSeq(s, 1, Len(s) - 1)) ELSE s

Trim(s) == TrimEnd(TrimStart(s))

GitChange(p, s, u, t) ==
    [path |-> p, staged |-> s, unstaged |-> u, untracked |-> t]

NoStatus ==
    [present |-> FALSE, repoPath |-> NULL, branch |-> << >>, changes |-> << >>]

GitStatusResponse(r, b, cs) ==
    [present |-> TRUE, repoPath |-> r, branch |-> b, changes |-> cs]

\* change lists the external git_status command may answer with
ChangeLists ==
    { << >>,
      << GitChange("a", FALSE, TRUE, FALSE) >>,
      << GitChange("a", TRUE, TRUE, FALSE), GitChange("b", FALSE, FALSE, TRUE) >> }

\* a value a rejected invoke() is rejected with: an Error or something else
Rejections == { [isError |-> TRUE, message |-> "git failed"],
                [isError |-> FALSE, message |-> NULL] }

\* patches the external git_diff command may answer with; `parsed` is what
\* parsePatchFiles / FileDiff.render of the diff library make of the text
Patches ==
    { [text |-> << " " >>, parsed |-> "file"],
      [text |-> << "+" >>, parsed |-> "file"],
      [text |-> << "+" >>, parsed |-> "nofile"] }

CommitMessages == { << >>, << " " >>, << " ", "x", " " >> }

\* one invoked command with the frames suspended on it
\*   inRefresh : a refresh() frame awaits it (directly or through loadDiff)
\*   caller    : the handler whose frame is below that, or "none"
Invocation(cmd, rp, inRefresh, caller) ==
    [cmd |-> cmd, repoPath |-> rp, path |-> NULL, staged |-> FALSE,
     untracked |-> FALSE, message |-> << >>, amend |-> FALSE,
     branch |-> << >>, token |-> 0, nextStatus |-> NoStatus,
     inRefresh |-> inRefresh, caller |-> caller, id |-> 0]

\* nothing is ready to run
Idle == [kind |-> "none", caller |-> "none", nextStatus |-> NoStatus]

\* refresh() resumes after `await loadBranches(...)` / `await loadDiff(...)`
RefreshReady(kind, e) ==
    [kind |-> kind, caller |-> e.caller, nextStatus |-> e.nextStatus]

\* the handler resumes after `await refresh()`
HandlerReady(caller) ==
    IF caller \in {"none", "onMounted"} THEN Idle
    ELSE [kind |-> "handler", caller |-> caller, nextStatus |-> NoStatus]

RemoveAt(q, i) == SubSeq(q, 1, i - 1) \o SubSeq(q, i + 1, Len(q))

----------------------------------------------------------------------------
(* The panel as one record, so that handlers compose *)

Panel ==
    [open |-> open, repoPath |-> repoPath, loading |-> loading,
     loadingDiff |-> loadingDiff, error |-> error, status |-> status,
     selectedPath |-> selectedPath, diffContainer |-> diffContainer,
     lastRepoPath |-> lastRepoPath, actionPath |-> actionPath,
     actionLoading |-> actionLoading, commitLoading |-> commitLoading,
     commitMessage |-> commitMessage, remoteLoading |-> remoteLoading,
     remoteAction |-> remoteAction, branchLoading |-> branchLoading,
     checkoutLoading |-> checkoutLoading, branches |-> branches,
     currentBranch |-> currentBranch, branchModalOpen |-> branchModalOpen,
     branchQuery |-> branchQuery, diffInstance |-> diffInstance,
     refreshInFlight |-> refreshInFlight, refreshQueued |-> refreshQueued,
     diffToken |-> diffToken, inflight |-> inflight, ready |-> ready,
     ev |-> ev, hist |-> hist]

\* S is evaluated once
Becomes(S) ==
    \E T \in {S} :
       /\ open' = T.open
       /\ repoPath' = T.repoPath
       /\ loading' = T.loading
       /\ loadingDiff' = T.loadingDiff
       /\ error' = T.error
       /\ status' = T.status
       /\ selectedPath' = T.selectedPath
       /\ diffContainer' = T.diffContainer
       /\ lastRepoPath' = T.lastRepoPath
       /\ actionPath' = T.actionPath
       /\ actionLoading' = T.actionLoading
       /\ commitLoading' = T.commitLoading
       /\ commitMessage' = T.commitMessage
       /\ remoteLoading' = T.remoteLoading
       /\ remoteAction' = T.remoteAction
       /\ branchLoading' = T.branchLoading
       /\ checkoutLoading' = T.checkoutLoading
       /\ branches' = T.branches
       /\ currentBranch' = T.currentBranch
       /\ branchModalOpen' = T.branchModalOpen
       /\ branchQuery' = T.branchQuery
       /\ diffInstance' = T.diffInstance
       /\ refreshInFlight' = T.refreshInFlight
       /\ refreshQueued' = T.refreshQueued
       /\ diffToken' = T.diffToken
       /\ inflight' = T.inflight
       /\ ready' = T.ready
       /\ ev' = T.ev
       /\ hist' = T.hist
       /\ UNCHANGED << paneVars, shell, work >>

----------------------------------------------------------------------------
(* Bookkeeping of the turn taken and of what was issued *)

\* ev: the turn of the event loop just taken
\*   op           : the handler that ran, or which completion
\*   cmd, token   : the completed command and the diff token it had captured
\*   refreshCall  : "started" / "queued" when the turn called refresh()
\*   loadDiffCall : "issued" / "returned" when the turn called loadDiff()
\*   arg          : the argument the handler was called with
NewEv(op) ==
    [op |-> op, cmd |-> NULL, token |-> 0,
     refreshCall |-> "none", loadDiffCall |-> "none", arg |-> NULL]

Turn(op) == [Panel EXCEPT !.ev = NewEv(op)]

UserTurn(op) ==
    [Panel EXCEPT !.ev = NewEv(op), !.hist.events = @ + 1]

Completion(op, e) ==
    [Panel EXCEPT !.ev = [NewEv(op) EXCEPT !.cmd = e.cmd, !.token = e.token]]

\* hist: what has been issued so far
\*   events      : turns started by the user interface or a prop change
\*   sinceCall   : git_status invocations issued by or after the last
\*                 refresh() call of a handler, a watcher or the button
\*   statusFresh : status is the answer to such an invocation
\*   lastStatusOk: the git_status invocation that completed last succeeded
\*   burstStatus : git_status invocations issued since the last refresh()
\*                 call that found no cycle in flight (the start of a burst)
\*   burstExtra  : refresh() calls made while the first cycle of the burst
\*                 was in flight
\*   burstLate   : a refresh() call was made after the first cycle ended,
\*                 while a later cycle of the burst was in flight
\*   burstCycles : cycles of the burst that have ended
\*   statusPath  : the repoPath argument of the git_status invocation issued
\*                 last
Older(q) == [i \in 1..Len(q) |-> [q[i] EXCEPT !.id = 0]]

NoteRefreshCall(S) ==
    LET start == ~S.refreshInFlight
        h == S.hist
    IN [S EXCEPT
          !.ev.refreshCall = IF start THEN "started" ELSE "queued",
          !.inflight = Older(@),
          !.hist.sinceCall = 0,
          !.hist.statusFresh = FALSE,
          !.hist.burstStatus = IF start THEN 0 ELSE @,
          !.hist.burstCycles = IF start THEN 0 ELSE @,
          !.hist.burstExtra =
              IF start THEN 0 ELSE IF h.burstCycles = 0 THEN @ + 1 ELSE @,
          !.hist.burstLate =
              IF start THEN FALSE ELSE IF h.burstCycles = 0 THEN @ ELSE TRUE]

----------------------------------------------------------------------------
(* Derived values (computed refs) *)

RECURSIVE CountIf(_, _)
CountIf(cs, staged) ==
    IF cs = << >> THEN 0
    ELSE (IF Head(cs).staged = staged THEN 1 ELSE 0) + CountIf(Tail(cs), staged)

stagedCount(S) ==
    IF S.status.present THEN CountIf(S.status.changes, TRUE) ELSE 0

stagedChanges(S) ==
    IF S.status.present
    THEN SelectSeq(S.status.changes, LAMBDA c : c.staged)
    ELSE << >>

unstagedCount(S) ==
    IF S.status.present
    THEN Len(SelectSeq(S.status.changes, LAMBDA c : c.unstaged))
    ELSE 0

untrackedCount(S) ==
    IF S.status.present
    THEN Len(SelectSeq(S.status.changes, LAMBDA c : c.untracked))
    ELSE 0

unstagedChangesExclusive(S) ==
    IF S.status.present
    THEN SelectSeq(S.status.changes,
                   LAMBDA c : (c.unstaged \/ c.untracked) /\ ~c.staged)
    ELSE << >>

unstagedChanges(S) ==
    IF S.status.present
    THEN SelectSeq(S.status.changes, LAMBDA c : c.unstaged \/ c.untracked)
    ELSE << >>

commitDisabledReason(S) ==
    IF S.commitLoading THEN "Committing changes"
    ELSE IF stagedCount(S) = 0 THEN "Stage files before commit"
    ELSE IF Len(Trim(S.commitMessage)) = 0 THEN "Enter a commit message"
    ELSE NULL

canCommit(S) == commitDisabledReason(S) = NULL

activeRepoPath(S) ==
    IF S.status.present /\ S.status.repoPath # NULL THEN S.status.repoPath
    ELSE IF S.lastRepoPath # NULL THEN S.lastRepoPath
    ELSE NULL

\* index of the first entry of cs with this path, 0 if there is none
FindChange(cs, path) ==
    LET I == { i \in 1..Len(cs) : cs[i].path = path }
    IN IF I = {} THEN 0 ELSE CHOOSE i \in I : \A j \in I : i <= j

----------------------------------------------------------------------------
(* Diff pane *)

renderEmpty(S, message) ==
    IF ~S.diffContainer.attached THEN S
    ELSE [S EXCEPT !.diffContainer.textContent = message,
                   !.diffContainer.rendered = NULL]

renderDiffFromPatch(S, patch, path) ==
    IF ~S.diffContainer.attached \/ ~S.diffInstance THEN S
    ELSE IF Trim(patch.text) = << >> THEN renderEmpty(S, "No diff")
    ELSE IF patch.parsed = "nofile" THEN renderEmpty(S, "Cannot parse diff")
    ELSE IF patch.parsed = "throws" THEN renderEmpty(S, "Cannot render diff")
    ELSE [S EXCEPT !.diffContainer.textContent = "",
                   !.diffContainer.rendered = path]

----------------------------------------------------------------------------
(* loadDiff, up to its await *)

NextDiffTokenSame(t) == IF t = 0 THEN 1 ELSE t

NextDiffToken(t) == t + 1

loadDiffReturns(S, path) ==
    \/ ~S.status.present
    \/ FindChange(S.status.changes, path) = 0
    \/ S.status.repoPath = NULL

loadDiffOfGroup(S, path, inRefresh, nextStatus, caller) ==
    IF loadDiffReturns(S, path)
    THEN [S EXCEPT !.ev.loadDiffCall = "returned"]
    ELSE LET target == S.status.changes[FindChange(S.status.changes, path)]
             currentDiffToken == NextDiffToken(S.diffToken)
             inv == [Invocation("git_diff", S.status.repoPath, inRefresh, caller)
                       EXCEPT !.path = target.path,
                              !.untracked = target.untracked,
                              !.staged = target.staged,
                              !.token = currentDiffToken,
                              !.nextStatus = nextStatus]
         IN [S EXCEPT !.diffToken = currentDiffToken,
                      !.loadingDiff = TRUE,
                      !.inflight = Append(@, inv),
                      !.ev.loadDiffCall = "issued"]

loadDiff(S, path, inRefresh, nextStatus, caller) ==
    IF loadDiffReturns(S, path)
    THEN [S EXCEPT !.ev.loadDiffCall = "returned"]
    ELSE LET target == S.status.changes[FindChange(S.status.changes, path)]
             currentDiffToken == NextDiffToken(S.diffToken)
             inv == [Invocation("git_diff", S.status.repoPath, inRefresh, caller)
                       EXCEPT !.path = target.path,
                              !.untracked = target.untracked,
                              !.staged = FALSE,
                              !.token = currentDiffToken,
                              !.nextStatus = nextStatus]
         IN [S EXCEPT !.diffToken = currentDiffToken,
                      !.loadingDiff = TRUE,
                      !.inflight = Append(@, inv),
                      !.ev.loadDiffCall = "issued"]

----------------------------------------------------------------------------
(* refresh, up to its first await *)

RefreshBusyNoGuard(S) == FALSE

RefreshBusy(S) == S.refreshInFlight

effectiveRepoPath(S) ==
    IF S.repoPath # NULL THEN S.repoPath
    ELSE IF S.lastRepoPath # NULL THEN S.lastRepoPath
    ELSE NULL

refreshResetsFirst(S, caller, external) ==
    LET S0 == IF external THEN NoteRefreshCall(S) ELSE S
    IN IF S.refreshInFlight
       THEN [S0 EXCEPT !.refreshQueued = TRUE, !.loading = TRUE, !.error = NULL]
       ELSE [S0 EXCEPT !.refreshInFlight = TRUE,
                       !.loading = TRUE,
                       !.error = NULL,
                       !.inflight = Append(@, [Invocation("git_status",
                                                  effectiveRepoPath(S), TRUE, caller)
                                                 EXCEPT !.id = 1]),
                       !.hist.sinceCall = @ + 1,
                       !.hist.burstStatus = @ + 1,
                       !.hist.statusPath = effectiveRepoPath(S)]

\* external: called by a handler, a watcher or the button (not by the
\* finally block of a finishing cycle)
refresh(S, caller, external) ==
    LET S0 == IF external THEN NoteRefreshCall(S) ELSE S
    IN IF RefreshBusy(S)
       THEN [S0 EXCEPT !.refreshQueued = TRUE]
       ELSE LET inv == [Invocation("git_status", effectiveRepoPath(S), TRUE, caller)
                          EXCEPT !.id = 1]
            IN [S0 EXCEPT !.refreshInFlight = TRUE,
                          !.loading = TRUE,
                          !.error = NULL,
                          !.inflight = Append(@, inv),
                          !.hist.sinceCall = @ + 1,
                          !.hist.burstStatus = @ + 1,
                          !.hist.statusPath = effectiveRepoPath(S)]

----------------------------------------------------------------------------
(* The handlers that await a command and then refresh() *)

Fallback(e) ==
    CASE e.cmd = "git_stage" -> "Failed to stage file"
      [] e.cmd = "git_stage_all" -> "Failed to stage all changes"
      [] e.cmd = "git_unstage" -> "Failed to unstage file"
      [] e.cmd = "git_commit" -> "Failed to commit"
      [] e.cmd = "git_fetch" -> "Failed to fetch"
      [] e.cmd = "git_pull" -> "Failed to pull"
      [] e.cmd = "git_push" -> "Failed to push"
      [] e.cmd = "git_checkout" -> "Failed to switch branch"
      [] OTHER -> "Failed to load git status"

ErrorMessage(e, rej) == IF rej.isError THEN rej.message ELSE Fallback(e)

\* the finally block of the handler
ActionFinally(S, caller) ==
    CASE caller \in {"stageFile", "stageAllUnstaged", "unstageFile"} ->
            [S EXCEPT !.actionLoading = FALSE, !.actionPath = NULL]
      [] caller = "commitChanges" -> [S EXCEPT !.commitLoading = FALSE]
      [] caller = "runRemoteAction" ->
            [S EXCEPT !.remoteLoading = FALSE, !.remoteAction = NULL]
      [] caller = "switchBranch" -> [S EXCEPT !.checkoutLoading = FALSE]
      [] OTHER -> S

\* what the handler does once `await refresh()` has returned
ActionResume(S, caller) ==
    IF caller = "switchBranch"
    THEN ActionFinally([S EXCEPT !.branchModalOpen = FALSE,
                                 !.branchQuery = << >>], caller)
    ELSE ActionFinally(S, caller)

\* the catch block of the handler, then its finally block
ActionCatch(S, e, rej) ==
    ActionFinally([S EXCEPT !.error = ErrorMessage(e, rej)], e.caller)

\* `await refresh()` in a handler: the handler stays suspended on the cycle
\* when the call started one, and is ready to go on when the call returned
AwaitRefresh(S, caller) ==
    LET S1 == refresh(S, caller, TRUE)
    IN IF Len(S1.inflight) > Len(S.inflight) THEN S1
       ELSE [S1 EXCEPT !.ready = HandlerReady(caller)]

----------------------------------------------------------------------------
(* refresh, after its awaits *)

RefreshFinallyKeepsQueued(S, e) ==
    LET S1 == [S EXCEPT !.loading = FALSE,
                        !.refreshInFlight = FALSE,
                        !.hist.burstCycles = 1]
        S2 == IF S1.refreshQueued THEN refresh(S1, "none", FALSE) ELSE S1
    IN [S2 EXCEPT !.ready = HandlerReady(e.caller)]

RefreshFinallyDropsQueued(S, e) ==
    [S EXCEPT !.loading = FALSE,
              !.refreshInFlight = FALSE,
              !.refreshQueued = FALSE,
              !.hist.burstCycles = 1,
              !.ready = HandlerReady(e.caller)]

RefreshFinallyStaysInFlight(S, e) ==
    [S EXCEPT !.loading = FALSE, !.ready = HandlerReady(e.caller)]

\* the finally block of refresh(); the handler that awaited the cycle is
\* ready to go on
RefreshFinally(S, e) ==
    LET S1 == [S EXCEPT !.loading = FALSE,
                        !.refreshInFlight = FALSE,
                        !.hist.burstCycles = 1]
        S2 == IF S1.refreshQueued
              THEN refresh([S1 EXCEPT !.refreshQueued = FALSE], "none", FALSE)
              ELSE S1
    IN [S2 EXCEPT !.ready = HandlerReady(e.caller)]

RefreshCatchClearsStatus(S, e, rej) ==
    LET message == IF rej.isError THEN rej.message
                   ELSE "Failed to load git status"
    IN RefreshFinally(renderEmpty([S EXCEPT !.error = message,
                                            !.status = NoStatus,
                                            !.selectedPath = NULL,
                                            !.hist.lastStatusOk = FALSE],
                                  message), e)

RefreshCatch(S, e, rej) ==
    LET message == IF rej.isError THEN rej.message
                   ELSE "Failed to load git status"
    IN RefreshFinally(renderEmpty([S EXCEPT !.error = message,
                                            !.hist.lastStatusOk = FALSE],
                                  message), e)

\* loadBranches(nextStatus.repoPath), up to its await
loadBranches(S, e, nextStatus) ==
    LET inv == [Invocation("git_branches", nextStatus.repoPath, TRUE, e.caller)
                  EXCEPT !.nextStatus = nextStatus]
    IN [S EXCEPT !.branchLoading = TRUE, !.inflight = Append(@, inv)]

\* refresh() after `await invoke("git_status")` returned nextStatus
RefreshAfterStatus(S, e, nextStatus) ==
    loadBranches([S EXCEPT !.status = nextStatus,
                           !.lastRepoPath = nextStatus.repoPath,
                           !.hist.statusFresh = (e.id = 1),
                           !.hist.lastStatusOk = TRUE],
                 e, nextStatus)

RefreshAfterBranchesKeepsSelection(S, e) ==
    LET nextStatus == e.nextStatus
        sel == S.selectedPath
        S2 == loadDiff(S, sel, TRUE, nextStatus, e.caller)
    IN IF Len(nextStatus.changes) = 0 \/ sel = NULL THEN RefreshFinally(S, e)
       ELSE IF Len(S2.inflight) > Len(S.inflight) THEN S2
       ELSE RefreshFinally(S2, e)

\* refresh() after `await loadBranches(...)`
RefreshAfterBranches(S, e) ==
    LET nextStatus == e.nextStatus
    IN IF Len(nextStatus.changes) = 0
       THEN RefreshFinally(
                renderEmpty([S EXCEPT !.selectedPath = NULL],
                            "Working tree clean"), e)
       ELSE LET stillSelected ==
                    FindChange(nextStatus.changes, S.selectedPath) # 0
                sel == IF stillSelected THEN S.selectedPath
                       ELSE nextStatus.changes[1].path
                S1 == [S EXCEPT !.selectedPath = sel]
                S2 == loadDiff(S1, sel, TRUE, nextStatus, e.caller)
            IN IF sel = NULL THEN RefreshFinally(S1, e)
               ELSE IF Len(S2.inflight) > Len(S1.inflight) THEN S2
               ELSE RefreshFinally(S2, e)

----------------------------------------------------------------------------
(* Terminal pane (src/src/components/TerminalPane.vue), the event channel   *)
(* it listens on and the session registry its commands reach.  One pane,   *)
(* of tab OwnTab, is modelled; OtherTab is the session of another pane.    *)
(* A step is one job of the event loop of the page (a lifecycle hook up to *)
(* its next await, the continuation after an await, an event callback, a   *)
(* timer callback) or one step of the backend (a command handled by the    *)
(* registry, an event published by a read pump and delivered).            *)

OwnTab == "t1"
OtherTab == "t2"
Tabs == {OwnTab, OtherTab}

\* sizes (cols x rows) the terminal can be fitted to
Sizes == {"80x24", "120x30"}

\* output chunks of a session
Chunks == {"x", "y"}

ExitNotice == "[process exited]"

\* the pane, the backend and the bookkeeping as one record
Term == [pane |-> pane, backend |-> backend, plog |-> plog]

TermBecomes(T) ==
    \E U \in {T} :
       /\ pane' = U.pane
       /\ backend' = U.backend
       /\ plog' = U.plog

\* plog: the job just run and what the pane has seen
\*   op       : the handler, continuation or backend step that ran
\*   sent     : commands invoked by the pane in that job, in order
\*   result   : outcome of the command the registry handled in that step
\*   ptyOp    : what that command did to a process or a pty
\*   published: the event a read pump published in that step
\*   arrived  : events delivered to the listeners of the pane, in order
\*   screen   : what the pane wrote to its terminal, in order
\*   exitSeen : the terminal-exit event of the own session was delivered
\*   events   : steps started by the user, the window or the backend
TermTurn(op) ==
    [Term EXCEPT !.plog.op = op, !.plog.sent = << >>, !.plog.result = "none",
                 !.plog.ptyOp = "none",
                 !.plog.published = [event |-> "none", tabId |-> NULL, data |-> ""]]

TermUserTurn(op) == [TermTurn(op) EXCEPT !.plog.events = @ + 1]

Command(cmd, tabId) == [cmd |-> cmd, tabId |-> tabId, size |-> "none"]

\* invoke(cmd, ...): the command is on its way to the backend
Send(T, c) ==
    [T EXCEPT !.plog.sent = Append(@, c), !.backend.calls = @ \cup {c.cmd}]

\* syncPtySize(cols, rows)
syncPtySize(T, size) ==
    Send(T, [Command("resize_terminal", T.pane.tabId) EXCEPT !.size = size])

\* window.clearTimeout(id)
clearTimeout(timers, id) == { t \in timers : t.id # id }

\* window.setTimeout(...): the id of the new timer, one that is not in use
setTimeout(timers, last) ==
    CHOOSE n \in 1..(Cardinality(timers) + 2) :
       n # last /\ \A t \in timers : t.id # n

onResizeKeepsTimer(T, size) ==
    LET id == setTimeout(T.pane.timers, T.pane.resizeDebounce)
    IN [T EXCEPT !.pane.resizeDebounce = id,
                 !.pane.timers = @ \cup {[id |-> id, size |-> size]}]

\* terminal.onResize(({ cols, rows }) => ...): the pending timer is cleared
\* and a new one, which carries cols and rows, is set
onResize(T, size) ==
    LET kept == IF T.pane.resizeDebounce # 0
                THEN clearTimeout(T.pane.timers, T.pane.resizeDebounce)
                ELSE T.pane.timers
        id == setTimeout(kept, T.pane.resizeDebounce)
    IN [T EXCEPT !.pane.resizeDebounce = id,
                 !.pane.timers = kept \cup {[id |-> id, size |-> size]}]

\* the root element of the pane is in the document
Attached(T) == T.pane.unmounted = "no"

\* fitAddon.fit(): the terminal is resized to its container, which has room
\* for `size`; a resize event is raised when that changes the terminal's
\* size.  A terminal whose element is not in the document is not resized.
fit(T, size) ==
    IF T.pane.terminal = "live" /\ Attached(T) /\ size # T.pane.size
    THEN onResize([T EXCEPT !.pane.size = size], size)
    ELSE T

\* fitTerminal(force), the container having room for `size`
fitTerminal(T, force, size) ==
    IF ~T.pane.fitAddon \/ T.pane.terminal = NULL THEN T
    ELSE IF ~T.pane.active /\ ~force THEN T
    ELSE LET T1 == fit(T, size)
         IN syncPtySize(T1, T1.pane.size)

----------------------------------------------------------------------------
(* Session registry and read pump of the backend *)

Session(id) == [id |-> id, state |-> "Running"]

Present(reg, id) == \E i \in 1..Len(reg) : reg[i].id = id

StateOf(reg, id) ==
    IF Present(reg, id)
    THEN reg[CHOOSE i \in 1..Len(reg) : reg[i].id = id].state
    ELSE "absent"

RegistryOpenUnchecked(reg, id) ==
    [result |-> "ok", registry |-> Append(reg, Session(id)), ptyOp |-> "spawn"]

\* open(sessionId): AlreadyOpen when the id is present, otherwise the
\* session is stored as Running
RegistryOpen(reg, id) ==
    IF Present(reg, id)
    THEN [result |-> "AlreadyOpen", registry |-> reg, ptyOp |-> "none"]
    ELSE [result |-> "ok", registry |-> Append(reg, Session(id)),
          ptyOp |-> "spawn"]

RegistryCloseStrict(reg, id) ==
    IF Present(reg, id)
    THEN [result |-> "ok", registry |-> SelectSeq(reg, LAMBDA s : s.id # id),
          ptyOp |-> "terminate"]
    ELSE [result |-> "NotFound", registry |-> reg, ptyOp |-> "terminate"]

\* close(sessionId): terminates the process, releases the pty and removes
\* the entry; closing an absent id is a no-op success
RegistryClose(reg, id) ==
    IF Present(reg, id)
    THEN [result |-> "ok", registry |-> SelectSeq(reg, LAMBDA s : s.id # id),
          ptyOp |-> "terminate"]
    ELSE [result |-> "ok", registry |-> reg, ptyOp |-> "none"]

RegistrySendUnchecked(reg, id) ==
    IF Present(reg, id)
    THEN [result |-> "ok", ptyOp |-> "io"]
    ELSE [result |-> "NotFound", ptyOp |-> "none"]

\* write(sessionId, bytes) / resize(sessionId, cols, rows): NotFound when
\* the id is absent, NotRunning when the session has exited, otherwise the
\* pty master is written to or resized
RegistrySend(reg, id) ==
    IF ~Present(reg, id) THEN [result |-> "NotFound", ptyOp |-> "none"]
    ELSE IF StateOf(reg, id) # "Running"
    THEN [result |-> "NotRunning", ptyOp |-> "none"]
    ELSE [result |-> "ok", ptyOp |-> "io"]

PumpAlive(reg, id) == Present(reg, id)

\* the read pump of the session runs: from open until EOF or close
PumpRuns(reg, id) == StateOf(reg, id) = "Running"

\* the read pump hit EOF: the session is Exited and stays in the registry
RegistryExited(reg, id) ==
    [i \in 1..Len(reg) |->
        IF reg[i].id = id THEN [reg[i] EXCEPT !.state = "Exited"] ELSE reg[i]]

----------------------------------------------------------------------------
(* Initial state of the pane: after setup(), before onMounted *)

InitPane ==
    [tabId |-> OwnTab,
     pc |-> "setup",            \* where onMounted is
     terminal |-> NULL,         \* NULL, "live" or "disposed"
     fitAddon |-> FALSE,
     unlistenData |-> FALSE,    \* the variable holds an unlisten function
     unlistenExit |-> FALSE,
     resizeDebounce |-> 0,      \* the timer id held by the variable, 0: null
     timers |-> {},             \* the pending timers of the pane: id, size
     active |-> TRUE,           \* props.active
     size |-> "80x24",          \* terminal.cols x terminal.rows
     observing |-> FALSE,       \* fitAddon.observeResize() was called
     unmounted |-> "no"]        \* "no", "closing" (close awaited), "done"

\* backend: the registry, the listeners registered on the event channel by
\* the pane, the kinds of command invoked and not yet handled (commands of
\* one kind that wait together are handled in one step), the replies not
\* yet returned to the pane
InitBackend(reg) ==
    [registry |-> reg, listeners |-> {}, calls |-> {}, replies |-> {}]

InitPlog ==
    [op |-> "setup", sent |-> << >>, result |-> "none", ptyOp |-> "none",
     published |-> [event |-> "none", tabId |-> NULL, data |-> ""],
     arrived |-> << >>, screen |-> << >>,
     exitSeen |-> FALSE, events |-> 0]

\* the registry is process-wide and outlives the page: a session of the
\* tab may be left from before the page was loaded
InitRegistries == { << >>, << Session(OwnTab) >> }

----------------------------------------------------------------------------
(* Application shell (App.vue): the working directory of the active        *)
(* terminal, looked up at mount, on every change of the active tab and on  *)
(* every tick of the polling interval                                      *)

\* working directories terminal_cwd can answer with
Cwds == {NULL, "r1", "r2"}

\* shell.log: the job just run
\*   op      : the hook, callback or continuation that ran
\*   sent    : terminal_cwd commands invoked in that job
\*   outcome : how the promise of syncActiveTerminalCwd() settled in that job
\*             ("none" while it is pending or was not called)
\*   failed  : the job is the continuation of a rejected terminal_cwd
\*   forTab  : the tab of the terminal_cwd whose response the job handled
\*   late    : the response of a request issued after that one had been
\*             handled before
InitShell ==
    [mounted |-> "no",          \* "no", "yes" or "unmounted"
     activeTab |-> OwnTab,      \* activeTab.value?.id, NULL when there is none
     activeTerminalCwd |-> NULL,
     cwdPollTimer |-> NULL,     \* the interval id held by the variable
     interval |-> FALSE,        \* the window holds the polling interval
     requests |-> << >>,        \* terminal_cwd invoked and not yet completed,
                                \* in the order of the invocations
     log |-> [op |-> "setup", sent |-> << >>, outcome |-> "none",
              failed |-> FALSE, forTab |-> NULL, late |-> FALSE,
              events |-> 0]]

ShellTurn(op) ==
    [shell EXCEPT !.log.op = op, !.log.sent = << >>, !.log.outcome = "none",
                  !.log.failed = FALSE, !.log.forTab = NULL,
                  !.log.late = FALSE]

ShellUserTurn(op) == [ShellTurn(op) EXCEPT !.log.events = @ + 1]

\* syncActiveTerminalCwd() up to its await
syncActiveTerminalCwd(H) ==
    LET tabId == H.activeTab
    IN IF tabId = NULL
       THEN [H EXCEPT !.activeTerminalCwd = NULL, !.log.outcome = "resolved"]
       ELSE [H EXCEPT !.requests = Append(@, [tabId |-> tabId, late |-> FALSE]),
                      !.log.sent = Append(@, Command("terminal_cwd", tabId))]

CwdCatchRethrows(H) == [H EXCEPT !.log.outcome = "rejected"]

\* the catch block of syncActiveTerminalCwd()
CwdCatch(H) ==
    [H EXCEPT !.activeTerminalCwd = NULL, !.log.outcome = "resolved"]

----------------------------------------------------------------------------
(* Workspace of the application shell (App.vue): projects, tabs and the   *)
(* active project and tab, and the terminal panes the template renders    *)
(* for the tabs.  A step is one handler of the template together with the *)
(* render that follows it in the same job, or the mount sequence of one   *)
(* pane reaching open_terminal.                                           *)

\* uid(prefix): the n-th identifier drawn; two draws are taken to differ
uid(prefix, n) == prefix \o "-" \o ToString(n)

DefaultProjectName == << "p", "r", "o", "j", "e", "c", "t" >>

\* `session-${count}`
SessionTitle(count) == << "session-", ToString(count) >>

\* texts of an inline input when it is committed
NameInputs == { << >>, << " " >>, << " ", "x", " " >> }

\* defaultState()
defaultState ==
    [projects |-> << [id |-> uid("project", 1), name |-> DefaultProjectName] >>,
     tabs |-> << [id |-> uid("tab", 2), projectId |-> uid("project", 1),
                  title |-> SessionTitle(1)] >>,
     activeProjectId |-> uid("project", 1),
     activeTabId |-> uid("tab", 2)]

\* state.tabs.find((tab) => tab.projectId === projectId)?.id ?? null
FirstTabOf(tabs, projectId) ==
    LET I == { i \in 1..Len(tabs) : tabs[i].projectId = projectId }
    IN IF I = {} THEN NULL
       ELSE tabs[CHOOSE i \in I : \A j \in I : i <= j].id

projectTabs(W) ==
    IF W.state.activeProjectId = NULL THEN << >>
    ELSE SelectSeq(W.state.tabs,
                   LAMBDA tab : tab.projectId = W.state.activeProjectId)

\* the ids of projectTabs
ProjectTabIds(W) == { projectTabs(W)[i].id : i \in 1..Len(projectTabs(W)) }

PaneTabsOfActiveProject(W) == ProjectTabIds(W)

\* <TerminalPane v-for="tab in state.tabs" :key="tab.id">
PaneTabs(W) == { W.state.tabs[i].id : i \in 1..Len(W.state.tabs) }

RECURSIVE CloseSessions(_, _)
\* close_terminal handled by the registry for each of the ids
CloseSessions(reg, ids) ==
    IF ids = {} THEN reg
    ELSE LET id == CHOOSE x \in ids : TRUE
         IN CloseSessions(RegistryClose(reg, id).registry, ids \ {id})

\* the render after a handler: a pane is mounted for each tab that has none
\* and its mount sequence starts; the pane of a tab that is gone is
\* unmounted, and its onBeforeUnmount invokes close_terminal
Render(W) ==
    LET ids == PaneTabs(W)
        removed == W.panes \ ids
    IN [W EXCEPT !.panes = ids,
                 !.opening = @ \cup (ids \ W.panes),
                 !.registry = CloseSessions(@, removed),
                 !.log.sent = { Command("close_terminal", id) : id \in removed },
                 !.log.closed = { id \in removed : Present(W.registry, id) }]

\* work.log: the job just run
\*   op     : the handler that ran
\*   arg    : the project or tab it was called for
\*   sent   : open_terminal / close_terminal commands invoked in that job
\*   closed : sessions the registry terminated in that job
\*   events : handlers run so far
InitWork ==
    Render([state |-> defaultState,
            uids |-> 2,                  \* identifiers drawn so far
            creatingProject |-> FALSE,
            editingProjectId |-> NULL,
            editingTabId |-> NULL,
            panes |-> {},                \* tab ids with a mounted TerminalPane
            opening |-> {},              \* panes whose onMounted has not yet
                                         \* invoked open_terminal
            registry |-> << >>,
            log |-> [op |-> "setup", arg |-> NULL, sent |-> {}, closed |-> {},
                     events |-> 0]])

setActiveProject(W, projectId) ==
    [W EXCEPT !.state.activeProjectId = projectId,
              !.state.activeTabId = FirstTabOf(W.state.tabs, projectId)]

\* commitCreateProject(), the input holding `text`
commitCreateProject(W, text) ==
    IF Trim(text) = << >> THEN [W EXCEPT !.creatingProject = FALSE]
    ELSE LET projectId == uid("project", W.uids + 1)
             tabId == uid("tab", W.uids + 2)
         IN [W EXCEPT !.uids = @ + 2,
                      !.state.projects =
                          Append(@, [id |-> projectId, name |-> Trim(text)]),
                      !.state.tabs =
                          Append(@, [id |-> tabId, projectId |-> projectId,
                                     title |-> SessionTitle(1)]),
                      !.state.activeProjectId = projectId,
                      !.state.activeTabId = tabId,
                      !.creatingProject = FALSE]

\* commitRenameProject(), the input holding `text`
commitRenameProject(W, text) ==
    IF W.editingProjectId = NULL THEN W
    ELSE [W EXCEPT !.state.projects =
                       [i \in 1..Len(@) |->
                           IF @[i].id = W.editingProjectId /\ Trim(text) # << >>
                           THEN [@[i] EXCEPT !.name = Trim(text)] ELSE @[i]],
                   !.editingProjectId = NULL]

deleteProject(W, projectId) ==
    IF Len(W.state.projects) <= 1 THEN W
    ELSE LET remainingProjects ==
                 SelectSeq(W.state.projects,
                           LAMBDA project : project.id # projectId)
             remainingTabs ==
                 SelectSeq(W.state.tabs, LAMBDA tab : tab.projectId # projectId)
             nextProjectId ==
                 IF W.state.activeProjectId = projectId
                 THEN IF remainingProjects = << >> THEN NULL
                      ELSE remainingProjects[1].id
                 ELSE W.state.activeProjectId
         IN [W EXCEPT !.state.projects = remainingProjects,
                      !.state.tabs = remainingTabs,
                      !.state.activeProjectId = nextProjectId,
                      !.state.activeTabId =
                          FirstTabOf(remainingTabs, nextProjectId)]

createTab(W) ==
    IF W.state.activeProjectId = NULL THEN W
    ELSE LET count == Len(projectTabs(W)) + 1
             tab == [id |-> uid("tab", W.uids + 1),
                     projectId |-> W.state.activeProjectId,
                     title |-> SessionTitle(count)]
         IN [W EXCEPT !.uids = @ + 1,
                      !.state.tabs = Append(@, tab),
                      !.state.activeTabId = tab.id]

\* commitRenameTab(), the input holding `text`
commitRenameTab(W, text) ==
    IF W.editingTabId = NULL THEN W
    ELSE [W EXCEPT !.state.tabs =
                       [i \in 1..Len(@) |->
                           IF @[i].id = W.editingTabId /\ Trim(text) # << >>
                           THEN [@[i] EXCEPT !.title = Trim(text)] ELSE @[i]],
                   !.editingTabId = NULL]

closeTabNoReplacement(W, tabId) ==
    LET I == { i \in 1..Len(W.state.tabs) : W.state.tabs[i].id = tabId }
    IN IF I = {} THEN W
       ELSE LET tab == W.state.tabs[CHOOSE i \in I : TRUE]
                rest == SelectSeq(W.state.tabs, LAMBDA item : item.id # tabId)
            IN [W EXCEPT !.state.tabs = rest,
                         !.state.activeTabId =
                             IF @ = tabId THEN FirstTabOf(rest, tab.projectId)
                             ELSE @]

closeTab(W, tabId) ==
    LET I == { i \in 1..Len(W.state.tabs) : W.state.tabs[i].id = tabId }
    IN IF I = {} THEN W
       ELSE LET tab == W.state.tabs[CHOOSE i \in I : \A j \in I : i <= j]
                rest == SelectSeq(W.state.tabs, LAMBDA item : item.id # tabId)
                empty == FirstTabOf(rest, tab.projectId) = NULL
                replacement == [id |-> uid("tab", W.uids + 1),
                                projectId |-> tab.projectId,
                                title |-> SessionTitle(1)]
                tabs == IF empty THEN Append(rest, replacement) ELSE rest
            IN [W EXCEPT !.uids = IF empty THEN @ + 1 ELSE @,
                         !.state.tabs = tabs,
                         !.state.activeTabId =
                             IF @ = tabId THEN FirstTabOf(tabs, tab.projectId)
                             ELSE @]

----------------------------------------------------------------------------
(* Initial state: the components after setup(), before onMounted *)

GitInit ==
    /\ open = TRUE
    /\ repoPath = NULL
    /\ loading = FALSE
    /\ loadingDiff = FALSE
    /\ error = NULL
    /\ status = NoStatus
    /\ selectedPath = NULL
    /\ diffContainer = [attached |-> FALSE, textContent |-> "", rendered |-> NULL]
    /\ lastRepoPath = NULL
    /\ actionPath = NULL
    /\ actionLoading = FALSE
    /\ commitLoading = FALSE
    /\ commitMessage = << >>
    /\ remoteLoading = FALSE
    /\ remoteAction = NULL
    /\ branchLoading = FALSE
    /\ checkoutLoading = FALSE
    /\ branches = << >>
    /\ currentBranch = << >>
    /\ branchModalOpen = FALSE
    /\ branchQuery = << >>
    /\ diffInstance = FALSE
    /\ refreshInFlight = FALSE
    /\ refreshQueued = FALSE
    /\ diffToken = 0
    /\ inflight = << >>
    /\ ready = Idle
    /\ ev = NewEv("setup")
    /\ hist = [events |-> 0, sinceCall |-> 0, statusFresh |-> FALSE,
               lastStatusOk |-> FALSE,
               burstStatus |-> 0, burstCycles |-> 0, burstExtra |-> 0,
               burstLate |-> FALSE, statusPath |-> NULL]

Init ==
    /\ GitInit
    /\ pane = InitPane
    /\ backend = InitBackend(<< >>)
    /\ plog = InitPlog
    /\ shell = InitShell
    /\ work = InitWork

----------------------------------------------------------------------------
(* Turns started by the user interface, by a watcher or by mounting *)

CanAct ==
    /\ diffInstance
    /\ ready = Idle
    /\ hist.events < MaxEvents
    /\ Len(inflight) < MaxInflight

Rows(cs) == { cs[i].path : i \in 1..Len(cs) }

OnMounted ==
    /\ ~diffInstance
    /\ ready = Idle
    /\ LET S0 == [Turn("onMounted") EXCEPT !.diffInstance = TRUE,
                                           !.diffContainer.attached = TRUE]
       IN Becomes(refresh(renderEmpty(S0, ""), "onMounted", TRUE))

\* @click="refresh", :disabled="loading || remoteLoading"
RefreshClick ==
    /\ CanAct
    /\ ~(loading \/ remoteLoading)
    /\ Becomes(refresh(UserTurn("refresh"), "none", TRUE))

\* pickFile(path), for a row of the Staged or of the Unstaged group
PickFile ==
    /\ CanAct
    /\ \E path \in Rows(stagedChanges(Panel)) \cup Rows(unstagedChanges(Panel)) :
          LET S0 == [UserTurn("pickFile") EXCEPT !.selectedPath = path]
          IN Becomes(loadDiff(S0, path, FALSE, NoStatus, "none"))

\* stageFile(path) and unstageFile(path) have the same shape
StageOrUnstage(S, op, cmd, path) ==
    LET rp == activeRepoPath(S)
    IN IF rp = NULL THEN S
       ELSE [S EXCEPT !.actionPath = path,
                      !.actionLoading = TRUE,
                      !.error = NULL,
                      !.inflight = Append(@, [Invocation(cmd, rp, FALSE, op)
                                                EXCEPT !.path = path])]

\* :disabled="actionLoading && actionPath === change.path"
RowEnabled(path) == ~(actionLoading /\ actionPath = path)

StageFile ==
    /\ CanAct
    /\ \E path \in Rows(unstagedChanges(Panel)) :
          /\ RowEnabled(path)
          /\ Becomes(StageOrUnstage(UserTurn("stageFile"), "stageFile",
                                 "git_stage", path))

UnstageFile ==
    /\ CanAct
    /\ \E path \in Rows(stagedChanges(Panel)) :
          /\ RowEnabled(path)
          /\ Becomes(StageOrUnstage(UserTurn("unstageFile"), "unstageFile",
                                    "git_unstage", path))

stageAllUnstagedUnguarded(S) ==
    LET rp == activeRepoPath(S)
    IN IF rp = NULL THEN S
       ELSE [S EXCEPT !.actionPath = "__all__",
                      !.actionLoading = TRUE,
                      !.error = NULL,
                      !.inflight = Append(@, Invocation("git_stage_all", rp,
                                                        FALSE, "stageAllUnstaged"))]

stageAllUnstaged(S) ==
    LET rp == activeRepoPath(S)
    IN IF rp = NULL \/ S.actionLoading \/ Len(unstagedChanges(S)) = 0 THEN S
       ELSE [S EXCEPT !.actionPath = "__all__",
                      !.actionLoading = TRUE,
                      !.error = NULL,
                      !.inflight = Append(@, Invocation("git_stage_all", rp,
                                                        FALSE, "stageAllUnstaged"))]

StageAllUnstaged ==
    /\ CanAct
    /\ Becomes(stageAllUnstaged(UserTurn("stageAllUnstaged")))

\* v-model="commitMessage", :disabled="commitLoading"
TypeCommitMessage ==
    /\ CanAct
    /\ ~commitLoading
    /\ \E m \in CommitMessages :
          /\ m # commitMessage
          /\ Becomes([UserTurn("typeCommitMessage") EXCEPT !.commitMessage = m])

CommitGuardNoMessage(S) == ~S.commitLoading /\ stagedCount(S) > 0

CommitGuard(S) == canCommit(S)

commitChanges(S, amend) ==
    LET rp == activeRepoPath(S)
    IN IF ~CommitGuard(S) THEN S
       ELSE IF rp = NULL THEN S
       ELSE [S EXCEPT !.commitLoading = TRUE,
                      !.error = NULL,
                      !.inflight = Append(@, [Invocation("git_commit", rp, FALSE,
                                                         "commitChanges")
                                                EXCEPT !.message = Trim(S.commitMessage),
                                                       !.amend = amend])]

CommitChanges ==
    /\ CanAct
    /\ \E amend \in BOOLEAN :
          Becomes(commitChanges(UserTurn("commitChanges"), amend))

runRemoteActionUnguarded(S, action) ==
    LET rp == activeRepoPath(S)
    IN IF rp = NULL THEN S
       ELSE [S EXCEPT !.remoteLoading = TRUE,
                      !.remoteAction = action,
                      !.error = NULL,
                      !.inflight = Append(@, Invocation("git_" \o action, rp, FALSE,
                                                        "runRemoteAction"))]

\* runRemoteAction(action) up to `await invoke`
runRemoteAction(S, action) ==
    LET rp == activeRepoPath(S)
    IN IF rp = NULL \/ S.remoteLoading THEN S
       ELSE [S EXCEPT !.remoteLoading = TRUE,
                      !.remoteAction = action,
                      !.error = NULL,
                      !.inflight = Append(@, Invocation("git_" \o action, rp, FALSE,
                                                        "runRemoteAction"))]

RunRemoteAction ==
    /\ CanAct
    /\ \E action \in {"fetch", "pull", "push"} :
          Becomes(runRemoteAction(UserTurn("runRemoteAction"), action))

IsCurrentBranchUntrimmed(S, branch) == branch = S.currentBranch

IsCurrentBranch(S, branch) == Trim(branch) = S.currentBranch

switchBranch(S, branch) ==
    LET rp == activeRepoPath(S)
        target == Trim(branch)
    IN IF rp = NULL \/ target = << >> \/ S.checkoutLoading THEN S
       ELSE IF IsCurrentBranch(S, branch) THEN S
       ELSE [S EXCEPT !.checkoutLoading = TRUE,
                      !.error = NULL,
                      !.inflight = Append(@, [Invocation("git_checkout", rp, FALSE,
                                                         "switchBranch")
                                                EXCEPT !.branch = target])]

\* <DialogRoot v-model:open="branchModalOpen">: the trigger opens the dialog
\* (:disabled="branchLoading || checkoutLoading || !branches.length"), the
\* close button closes it
ToggleBranchModal ==
    /\ CanAct
    /\ branchModalOpen \/ ~(branchLoading \/ checkoutLoading \/ branches = << >>)
    /\ Becomes([UserTurn("toggleBranchModal")
                 EXCEPT !.branchModalOpen = ~branchModalOpen])

\* @click="switchBranch(branch)", for a row of the branch list in the dialog
SwitchBranch ==
    /\ CanAct
    /\ branchModalOpen
    /\ \E i \in 1..Len(branches) :
          Becomes(switchBranch([UserTurn("switchBranch")
                                  EXCEPT !.ev.arg = branches[i]],
                               branches[i]))

\* watch(() => props.open)
WatchOpen ==
    /\ CanAct
    /\ LET S0 == [UserTurn("watchOpen") EXCEPT !.open = ~open]
       IN IF ~S0.open THEN Becomes(S0)
          ELSE IF ~S0.status.present THEN Becomes(refresh(S0, "none", TRUE))
          ELSE IF S0.selectedPath # NULL
               THEN Becomes(loadDiff(S0, S0.selectedPath, FALSE, NoStatus, "none"))
               ELSE Becomes(S0)

\* watch(() => props.repoPath)
WatchRepoPath ==
    /\ CanAct
    /\ \E nextPath \in Repos \cup {NULL} :
          /\ nextPath # repoPath
          /\ LET S0 == [UserTurn("watchRepoPath") EXCEPT !.repoPath = nextPath]
                 S1 == IF nextPath # NULL
                       THEN [S0 EXCEPT !.lastRepoPath = nextPath] ELSE S0
             IN IF ~S1.open THEN Becomes(S1)
                ELSE IF nextPath = NULL /\ S1.lastRepoPath = NULL THEN Becomes(S1)
                ELSE Becomes(refresh(S1, "none", TRUE))

----------------------------------------------------------------------------
(* Turns started by the completion of an invoked command *)

StatusResponses ==
    { GitStatusResponse(r, <<"m">>, cs) : r \in Repos, cs \in ChangeLists }

\* the last name is the current one with a blank after it: the handler
\* compares the trimmed name
BranchesResponses ==
    { [current |-> <<"m">>,
       branches |-> << <<"m">>, <<"d">>, <<"m", " ">> >>] }

Taken(i, S) == [S EXCEPT !.inflight = RemoveAt(@, i)]

StatusDone ==
    \E i \in 1..Len(inflight) :
       /\ ready = Idle
       /\ inflight[i].cmd = "git_status"
       /\ LET e == inflight[i]
          IN \/ \E nextStatus \in StatusResponses :
                  Becomes(RefreshAfterStatus(
                              Taken(i, Completion("statusDone", e)),
                              e, nextStatus))
             \/ \E rej \in Rejections :
                  Becomes(RefreshCatch(
                              Taken(i, Completion("statusDone", e)),
                              e, rej))

LoadBranchesCatchSetsError(S) ==
    [S EXCEPT !.branches = << >>,
              !.currentBranch = << >>,
              !.error = "Failed to load branches",
              !.branchLoading = FALSE]

\* loadBranches(): catch and finally blocks
LoadBranchesCatch(S) ==
    [S EXCEPT !.branches = << >>,
              !.currentBranch = << >>,
              !.branchLoading = FALSE]

\* loadBranches() after `await invoke("git_branches")`: try / catch / finally
BranchesDone ==
    \E i \in 1..Len(inflight) :
       /\ ready = Idle
       /\ inflight[i].cmd = "git_branches"
       /\ LET e == inflight[i]
              S0 == [Taken(i, Completion("branchesDone", e))
                       EXCEPT !.ready = RefreshReady("afterBranches", e)]
          IN \/ \E response \in BranchesResponses :
                  Becomes([S0 EXCEPT !.branches = response.branches,
                                     !.currentBranch = response.current,
                                     !.branchLoading = FALSE])
             \/ Becomes(LoadBranchesCatch([S0 EXCEPT !.ev.arg = "rejected"]))

IsStaleNever(currentDiffToken, S) == FALSE

IsStale(currentDiffToken, S) == currentDiffToken # S.diffToken

LoadDiffResumeClearsLoading(S, e, ok, patch) ==
    IF IsStale(e.token, S) THEN [S EXCEPT !.loadingDiff = FALSE]
    ELSE LET S1 == IF ok THEN renderDiffFromPatch(S, patch, e.path)
                   ELSE renderEmpty(S, "Failed to load diff")
         IN [S1 EXCEPT !.loadingDiff = FALSE]

\* loadDiff() after `await invoke("git_diff")`: try / catch / finally
LoadDiffResume(S, e, ok, patch) ==
    IF IsStale(e.token, S) THEN S
    ELSE LET S1 == IF ok THEN renderDiffFromPatch(S, patch, e.path)
                   ELSE renderEmpty(S, "Failed to load diff")
         IN [S1 EXCEPT !.loadingDiff = FALSE]

DiffDone ==
    \E i \in 1..Len(inflight) :
       /\ ready = Idle
       /\ inflight[i].cmd = "git_diff"
       /\ LET e == inflight[i]
              Go(ok, patch) ==
                  LET S0 == Taken(i, Completion("diffDone", e))
                      S2 == LoadDiffResume(S0, e, ok, patch)
                  IN Becomes(IF e.inRefresh
                             THEN [S2 EXCEPT !.ready = RefreshReady("afterDiff", e)]
                             ELSE S2)
          IN \/ \E patch \in Patches : Go(TRUE, patch)
             \/ Go(FALSE, [text |-> << >>, parsed |-> "file"])

ActionCommands ==
    {"git_stage", "git_unstage", "git_stage_all", "git_commit",
     "git_fetch", "git_pull", "git_push", "git_checkout"}

ActionSucceededSkipsRefresh(S, e) ==
    [(IF e.cmd = "git_commit" THEN [S EXCEPT !.commitMessage = << >>] ELSE S)
       EXCEPT !.ready = HandlerReady(e.caller)]

\* the handler after its command succeeded
ActionSucceeded(S, e) ==
    AwaitRefresh(IF e.cmd = "git_commit"
                 THEN [S EXCEPT !.commitMessage = << >>] ELSE S,
                 e.caller)

ActionFailedRefreshes(S, e, rej) ==
    AwaitRefresh([S EXCEPT !.error = ErrorMessage(e, rej)], e.caller)

\* the handler after its command failed
ActionFailed(S, e, rej) == ActionCatch(S, e, rej)

CommandDone ==
    \E i \in 1..Len(inflight) :
       /\ ready = Idle
       /\ inflight[i].cmd \in ActionCommands
       /\ LET e == inflight[i]
          IN Becomes(ActionSucceeded(
                         Taken(i, Completion("commandDone", e)), e))

CommandFailed ==
    \E i \in 1..Len(inflight) :
       /\ ready = Idle
       /\ inflight[i].cmd \in ActionCommands
       /\ LET e == inflight[i]
          IN \E rej \in Rejections :
                Becomes(ActionFailed(
                            Taken(i, Completion("commandFailed", e)),
                            e, rej))

\* refresh() goes on after `await loadBranches(...)` or `await loadDiff(...)`
RefreshResumes ==
    /\ ready.kind \in {"afterBranches", "afterDiff"}
    /\ LET S0 == [Turn("refreshResumes") EXCEPT !.ready = Idle]
       IN IF ready.kind = "afterBranches"
          THEN Becomes(RefreshAfterBranches(S0, ready))
          ELSE Becomes(RefreshFinally(S0, ready))

\* a handler goes on after `await refresh()`
HandlerResumes ==
    /\ ready.kind = "handler"
    /\ Becomes(ActionResume([Turn("handlerResumes") EXCEPT !.ready = Idle],
                            ready.caller))

Completes ==
    \/ StatusDone \/ BranchesDone \/ DiffDone \/ CommandDone \/ CommandFailed
    \/ RefreshResumes \/ HandlerResumes

Next ==
    \/ OnMounted
    \/ RefreshClick
    \/ PickFile
    \/ StageFile
    \/ UnstageFile
    \/ StageAllUnstaged
    \/ TypeCommitMessage
    \/ CommitChanges
    \/ RunRemoteAction
    \/ ToggleBranchModal
    \/ SwitchBranch
    \/ WatchOpen
    \/ WatchRepoPath
    \/ StatusDone
    \/ BranchesDone
    \/ DiffDone
    \/ CommandDone
    \/ CommandFailed
    \/ RefreshResumes
    \/ HandlerResumes

Spec == Init /\ [][Next]_vars

\* the same turns, with a smaller number of user-interface turns, and every
\* invoked command completing
LiveNext == Next /\ hist'.events <= MaxLiveEvents

LiveSpec == Init /\ [][LiveNext]_vars /\ WF_vars(Completes)

----------------------------------------------------------------------------
(* Actions of the terminal pane and of the backend *)

PaneCanAct == plog.events < MaxPaneEvents

\* onMounted up to `await ghosttyReady`
PaneOnMounted ==
    /\ pane.pc = "setup"
    /\ TermBecomes([TermTurn("onMounted") EXCEPT !.pane.pc = "ghostty"])
    /\ UNCHANGED << gitVars, shell, work >>

\* onMounted after `await ghosttyReady`: the terminal, its addon and its
\* handlers, up to `await listen("terminal-data", ...)`
GhosttyReady ==
    /\ pane.pc = "ghostty"
    /\ TermBecomes([TermTurn("ghosttyReady") EXCEPT !.pane.terminal = "live",
                                                    !.pane.fitAddon = TRUE,
                                                    !.pane.pc = "listenData"])
    /\ UNCHANGED << gitVars, shell, work >>

\* the data listener is registered; up to `await listen("terminal-exit", ...)`
ListenDataDone ==
    /\ pane.pc = "listenData"
    /\ TermBecomes([TermTurn("listenDataDone")
                      EXCEPT !.pane.unlistenData = TRUE,
                             !.backend.listeners = @ \cup {"terminal-data"},
                             !.pane.pc = "listenExit"])
    /\ UNCHANGED << gitVars, shell, work >>

\* the exit listener is registered; up to `await invoke("open_terminal")`
ListenExitDone ==
    /\ pane.pc = "listenExit"
    /\ LET T0 == [TermTurn("listenExitDone")
                    EXCEPT !.pane.unlistenExit = TRUE,
                           !.backend.listeners = @ \cup {"terminal-exit"},
                           !.pane.pc = "open"]
       IN TermBecomes(Send(T0, Command("open_terminal", pane.tabId)))
    /\ UNCHANGED << gitVars, shell, work >>

\* the registry handles the open_terminal of the pane
OpenHandled ==
    /\ "open_terminal" \in backend.calls
    /\ LET r == RegistryOpen(backend.registry, pane.tabId)
       IN TermBecomes([TermTurn("openHandled")
                         EXCEPT !.backend.registry = r.registry,
                                !.backend.calls = @ \ {"open_terminal"},
                                !.backend.replies =
                                    @ \cup {[cmd |-> "open_terminal",
                                             result |-> r.result]},
                                !.plog.result = r.result,
                                !.plog.ptyOp = r.ptyOp])
    /\ UNCHANGED << gitVars, shell, work >>

\* onMounted after `await invoke("open_terminal")`: a rejection ends it;
\* otherwise session-meta, fitTerminal(true), observeResize(), focus.
\* fit() on a disposed terminal may throw.
OpenReturns ==
    \E reply \in backend.replies, size \in Sizes, throws \in BOOLEAN :
       /\ reply.cmd = "open_terminal"
       /\ pane.pc = "open"
       /\ throws => pane.terminal = "disposed"
       /\ LET T0 == [TermTurn("openReturns")
                       EXCEPT !.backend.replies = @ \ {reply}]
          IN IF reply.result # "ok" \/ throws
             THEN TermBecomes([T0 EXCEPT !.pane.pc = "failed"])
             ELSE TermBecomes([fitTerminal(T0, TRUE, size)
                                 EXCEPT !.pane.observing = TRUE,
                                        !.pane.pc = "done"])
       /\ UNCHANGED << gitVars, shell, work >>

\* terminal.onData: the user typed into the terminal
UserInput ==
    /\ PaneCanAct
    /\ pane.terminal = "live"
    /\ pane.unmounted = "no"
    /\ pane.active
    /\ TermBecomes(Send(TermUserTurn("onData"),
                        Command("write_terminal", pane.tabId)))
    /\ UNCHANGED << gitVars, shell, work >>

\* the resize observer of the addon: the container changed size
ContainerResized ==
    \E size \in Sizes :
       /\ PaneCanAct
       /\ pane.observing
       /\ pane.terminal = "live"
       /\ pane.unmounted = "no"
       /\ size # pane.size
       /\ TermBecomes(fit(TermUserTurn("containerResized"), size))
       /\ UNCHANGED << gitVars, shell, work >>

\* the callback of the debounce timer
ResizeTimerFires ==
    /\ \E t \in pane.timers :
          TermBecomes([syncPtySize(TermTurn("resizeTimer"), t.size)
                         EXCEPT !.pane.resizeDebounce = 0,
                                !.pane.timers = @ \ {t}])
    /\ UNCHANGED << gitVars, shell, work >>

\* setTerminalFontSize(next) with a size that differs from the current one
FontSizeKey ==
    \E size \in Sizes :
       /\ PaneCanAct
       /\ pane.terminal = "live"
       /\ pane.unmounted = "no"
       /\ pane.active
       /\ TermBecomes(fitTerminal(TermUserTurn("setTerminalFontSize"), TRUE, size))
       /\ UNCHANGED << gitVars, shell, work >>

\* watch(() => props.active)
ActiveChanged ==
    \E size \in Sizes :
       /\ PaneCanAct
       /\ pane.unmounted = "no"
       /\ pane.pc # "setup"
       /\ LET T0 == [TermUserTurn("watchActive") EXCEPT !.pane.active = ~@]
          IN IF T0.pane.terminal = NULL \/ ~T0.pane.active
             THEN size = pane.size /\ TermBecomes(T0)
             ELSE TermBecomes(fitTerminal(T0, TRUE, size))
       /\ UNCHANGED << gitVars, shell, work >>

\* onBeforeUnmount up to `await invoke("close_terminal")`
PaneOnBeforeUnmount ==
    /\ PaneCanAct
    /\ pane.unmounted = "no"
    /\ pane.pc # "setup"
    /\ LET T0 == TermUserTurn("onBeforeUnmount")
           T1 == IF T0.pane.resizeDebounce # 0
                 THEN [T0 EXCEPT !.pane.timers =
                                    clearTimeout(@, T0.pane.resizeDebounce)]
                 ELSE T0
           T2 == IF T1.pane.unlistenData
                 THEN [T1 EXCEPT !.backend.listeners = @ \ {"terminal-data"}]
                 ELSE T1
           T3 == IF T2.pane.unlistenExit
                 THEN [T2 EXCEPT !.backend.listeners = @ \ {"terminal-exit"}]
                 ELSE T2
       IN TermBecomes(Send([T3 EXCEPT !.pane.unmounted = "closing"],
                           Command("close_terminal", pane.tabId)))
    /\ UNCHANGED << gitVars, shell, work >>

\* the registry handles the close_terminal of the pane
CloseHandled ==
    /\ "close_terminal" \in backend.calls
    /\ LET r == RegistryClose(backend.registry, pane.tabId)
       IN TermBecomes([TermTurn("closeHandled")
                         EXCEPT !.backend.registry = r.registry,
                                !.backend.calls = @ \ {"close_terminal"},
                                !.backend.replies =
                                    @ \cup {[cmd |-> "close_terminal",
                                             result |-> r.result]},
                                !.plog.result = r.result,
                                !.plog.ptyOp = r.ptyOp])
    /\ UNCHANGED << gitVars, shell, work >>

\* the registry handles a write_terminal or resize_terminal of the pane;
\* the pane ignores the outcome (.catch(() => undefined))
SessionCommandHandled ==
    \E cmd \in backend.calls \cap {"write_terminal", "resize_terminal"} :
       /\ LET r == RegistrySend(backend.registry, pane.tabId)
          IN TermBecomes([TermTurn(cmd)
                            EXCEPT !.backend.calls = @ \ {cmd},
                                   !.plog.result = r.result,
                                   !.plog.ptyOp = r.ptyOp])
       /\ UNCHANGED << gitVars, shell, work >>

\* onBeforeUnmount after the await: terminal?.dispose()
CloseReturns ==
    \E reply \in backend.replies :
       /\ reply.cmd = "close_terminal"
       /\ TermBecomes([TermTurn("closeReturns")
                         EXCEPT !.backend.replies = @ \ {reply},
                                !.pane.terminal =
                                    IF @ = NULL THEN NULL ELSE "disposed",
                                !.pane.unmounted = "done"])
       /\ UNCHANGED << gitVars, shell, work >>

OwnEventAny(T, payload) == TRUE

\* the payload is for the session of this pane
OwnEvent(T, payload) == payload.tabId = T.pane.tabId

\* the callback of listen("terminal-data")
OnTerminalData(T, payload) ==
    LET T0 == [T EXCEPT !.plog.arrived = Append(@, payload)]
    IN IF OwnEvent(T0, payload) /\ T0.pane.terminal # NULL
       THEN [T0 EXCEPT !.plog.screen = Append(@, payload.data)]
       ELSE T0

\* the callback of listen("terminal-exit")
OnTerminalExit(T, payload) ==
    LET T0 == [T EXCEPT !.plog.arrived = Append(@, payload)]
    IN IF OwnEvent(T0, payload)
       THEN [T0 EXCEPT !.plog.exitSeen = TRUE,
                       !.plog.screen = IF T0.pane.terminal # NULL
                                       THEN Append(@, ExitNotice) ELSE @]
       ELSE T0

\* the read pump of a running session publishes a chunk of output; the
\* event is delivered to the data listener of the pane when it has one
DataPublished ==
    \E id \in Tabs, data \in Chunks :
       /\ PaneCanAct
       /\ Len(plog.arrived) < MaxArrivals
       /\ PumpRuns(backend.registry, id)
       /\ LET payload == [event |-> "terminal-data", tabId |-> id, data |-> data]
              T0 == [TermUserTurn("terminal-data") EXCEPT !.plog.published = payload]
          IN IF "terminal-data" \in backend.listeners
             THEN TermBecomes(OnTerminalData(T0, payload))
             ELSE TermBecomes(T0)
       /\ UNCHANGED << gitVars, shell, work >>

\* the read pump of a running session hits EOF: the session is Exited and
\* one terminal-exit event is published
ExitPublished ==
    \E id \in Tabs :
       /\ PaneCanAct
       /\ Len(plog.arrived) < MaxArrivals
       /\ PumpRuns(backend.registry, id)
       /\ LET payload == [event |-> "terminal-exit", tabId |-> id, data |-> ""]
              T0 == [TermUserTurn("terminal-exit")
                       EXCEPT !.backend.registry = RegistryExited(@, id),
                              !.plog.published = payload]
          IN IF "terminal-exit" \in backend.listeners
             THEN TermBecomes(OnTerminalExit(T0, payload))
             ELSE TermBecomes(T0)
       /\ UNCHANGED << gitVars, shell, work >>

\* the pane of the other tab opens its session
OtherPaneOpens ==
    /\ PaneCanAct
    /\ LET r == RegistryOpen(backend.registry, OtherTab)
       IN TermBecomes([TermUserTurn("otherOpen")
                         EXCEPT !.backend.registry = r.registry,
                                !.plog.result = r.result,
                                !.plog.ptyOp = r.ptyOp])
    /\ UNCHANGED << gitVars, shell, work >>

\* the pane of the other tab closes its session
OtherPaneCloses ==
    /\ PaneCanAct
    /\ LET r == RegistryClose(backend.registry, OtherTab)
       IN TermBecomes([TermUserTurn("otherClose")
                         EXCEPT !.backend.registry = r.registry,
                                !.plog.result = r.result,
                                !.plog.ptyOp = r.ptyOp])
    /\ UNCHANGED << gitVars, shell, work >>

PaneNext ==
    \/ PaneOnMounted
    \/ GhosttyReady
    \/ ListenDataDone
    \/ ListenExitDone
    \/ OpenHandled
    \/ OpenReturns
    \/ UserInput
    \/ ContainerResized
    \/ ResizeTimerFires
    \/ FontSizeKey
    \/ ActiveChanged
    \/ PaneOnBeforeUnmount
    \/ CloseHandled
    \/ SessionCommandHandled
    \/ CloseReturns
    \/ DataPublished
    \/ ExitPublished
    \/ OtherPaneOpens
    \/ OtherPaneCloses

PaneInit ==
    /\ GitInit
    /\ pane = InitPane
    /\ \E reg \in InitRegistries : backend = InitBackend(reg)
    /\ plog = InitPlog
    /\ shell = InitShell
    /\ work = InitWork

PaneSpec == PaneInit /\ [][PaneNext]_vars

----------------------------------------------------------------------------
(* Actions of the application shell *)

ShellCanAct == shell.log.events < MaxShellEvents

\* onMounted of the shell
ShellOnMounted ==
    /\ shell.mounted = "no"
    /\ shell' = [syncActiveTerminalCwd(ShellTurn("onMounted"))
                   EXCEPT !.mounted = "yes",
                          !.cwdPollTimer = "interval",
                          !.interval = TRUE]
    /\ UNCHANGED << gitVars, paneVars, work >>

\* the callback of the polling interval
PollTick ==
    /\ ShellCanAct
    /\ shell.interval
    /\ Len(shell.requests) < MaxCwdRequests
    /\ shell' = syncActiveTerminalCwd(ShellUserTurn("pollTick"))
    /\ UNCHANGED << gitVars, paneVars, work >>

\* the active tab changes (a tab is selected, opened or closed) and
\* watch(() => activeTab.value?.id) runs
ActiveTabChanged ==
    \E tab \in Tabs \cup {NULL} :
       /\ ShellCanAct
       /\ shell.mounted = "yes"
       /\ tab # shell.activeTab
       /\ Len(shell.requests) < MaxCwdRequests
       /\ shell' = syncActiveTerminalCwd(
                       [ShellUserTurn("watchActiveTab") EXCEPT !.activeTab = tab])
       /\ UNCHANGED << gitVars, paneVars, work >>

\* syncActiveTerminalCwd() after `await invoke("terminal_cwd")`
CwdDone ==
    \E i \in 1..Len(shell.requests) :
       LET overtaken == [j \in 1..Len(shell.requests) |->
                            IF j < i
                            THEN [shell.requests[j] EXCEPT !.late = TRUE]
                            ELSE shell.requests[j]]
           H0 == [ShellTurn("cwdDone")
                    EXCEPT !.requests = RemoveAt(overtaken, i),
                           !.log.forTab = shell.requests[i].tabId,
                           !.log.late = shell.requests[i].late]
       IN /\ \/ \E cwd \in Cwds :
                   shell' = [H0 EXCEPT !.activeTerminalCwd = cwd,
                                       !.log.outcome = "resolved"]
             \/ shell' = CwdCatch([H0 EXCEPT !.log.failed = TRUE])
          /\ UNCHANGED << gitVars, paneVars, work >>

\* onBeforeUnmount of the shell
ShellOnBeforeUnmount ==
    /\ ShellCanAct
    /\ shell.mounted = "yes"
    /\ shell' = [ShellUserTurn("onBeforeUnmount")
                   EXCEPT !.mounted = "unmounted",
                          !.interval = IF shell.cwdPollTimer # NULL
                                       THEN FALSE ELSE @]
    /\ UNCHANGED << gitVars, paneVars, work >>

ShellNext ==
    \/ ShellOnMounted
    \/ PollTick
    \/ ActiveTabChanged
    \/ CwdDone
    \/ ShellOnBeforeUnmount

ShellSpec == Init /\ [][ShellNext]_vars

----------------------------------------------------------------------------
(* Actions of the workspace *)

WorkTurn(op, arg) ==
    [work EXCEPT !.log.op = op, !.log.arg = arg, !.log.sent = {},
                 !.log.closed = {}, !.log.events = @ + 1]

\* the handler has run; the template is rendered
WorkBecomes(W) ==
    /\ work' = Render(W)
    /\ UNCHANGED << gitVars, paneVars, shell >>

WorkCanAct == work.log.events < MaxWorkEvents

ProjectIds == { work.state.projects[i].id : i \in 1..Len(work.state.projects) }

\* @click="setActiveProject(project.id)"
SetActiveProject ==
    \E projectId \in ProjectIds :
       /\ WorkCanAct
       /\ WorkBecomes(setActiveProject(WorkTurn("setActiveProject", projectId),
                                       projectId))

\* @click="startCreateProject"
StartCreateProject ==
    /\ WorkCanAct
    /\ ~work.creatingProject
    /\ WorkBecomes([WorkTurn("startCreateProject", NULL)
                      EXCEPT !.creatingProject = TRUE])

\* @submit / @blur of the form shown while creatingProject
CommitCreateProject ==
    \E text \in NameInputs :
       /\ WorkCanAct
       /\ work.creatingProject
       /\ WorkBecomes(commitCreateProject(WorkTurn("commitCreateProject", NULL),
                                          text))

\* @keydown.esc of the form
CancelCreateProject ==
    /\ WorkCanAct
    /\ work.creatingProject
    /\ WorkBecomes([WorkTurn("cancelCreateProject", NULL)
                      EXCEPT !.creatingProject = FALSE])

\* startRenameProject(project.id)
StartRenameProject ==
    \E projectId \in ProjectIds :
       /\ WorkCanAct
       /\ WorkBecomes([WorkTurn("startRenameProject", projectId)
                         EXCEPT !.editingProjectId = projectId])

\* @keydown.enter / @blur of the input of the project being renamed
CommitRenameProject ==
    \E text \in NameInputs :
       /\ WorkCanAct
       /\ work.editingProjectId \in ProjectIds
       /\ WorkBecomes(commitRenameProject(
                          WorkTurn("commitRenameProject", work.editingProjectId),
                          text))

\* @keydown.esc of that input
CancelRenameProject ==
    /\ WorkCanAct
    /\ work.editingProjectId \in ProjectIds
    /\ WorkBecomes([WorkTurn("cancelRenameProject", NULL)
                      EXCEPT !.editingProjectId = NULL])

\* @select="deleteProject(project.id)"
DeleteProject ==
    \E projectId \in ProjectIds :
       /\ WorkCanAct
       /\ WorkBecomes(deleteProject(WorkTurn("deleteProject", projectId),
                                    projectId))

\* @click="createTab"
CreateTab ==
    /\ WorkCanAct
    /\ WorkBecomes(createTab(WorkTurn("createTab", NULL)))

\* @click="state.activeTabId = tab.id", for a tab of projectTabs
SelectTab ==
    \E tabId \in ProjectTabIds(work) :
       /\ WorkCanAct
       /\ WorkBecomes([WorkTurn("selectTab", tabId)
                         EXCEPT !.state.activeTabId = tabId])

\* startRenameTab(tab.id), for a tab of projectTabs
StartRenameTab ==
    \E tabId \in ProjectTabIds(work) :
       /\ WorkCanAct
       /\ WorkBecomes([WorkTurn("startRenameTab", tabId)
                         EXCEPT !.editingTabId = tabId])

\* @keydown.enter / @blur of the input of the tab being renamed
CommitRenameTab ==
    \E text \in NameInputs :
       /\ WorkCanAct
       /\ work.editingTabId \in ProjectTabIds(work)
       /\ WorkBecomes(commitRenameTab(
                          WorkTurn("commitRenameTab", work.editingTabId), text))

\* @keydown.esc of that input
CancelRenameTab ==
    /\ WorkCanAct
    /\ work.editingTabId \in ProjectTabIds(work)
    /\ WorkBecomes([WorkTurn("cancelRenameTab", NULL)
                      EXCEPT !.editingTabId = NULL])

\* closeTab(tab.id), for a tab of projectTabs
CloseTab ==
    \E tabId \in ProjectTabIds(work) :
       /\ WorkCanAct
       /\ WorkBecomes(closeTab(WorkTurn("closeTab", tabId), tabId))

\* the mount sequence of a pane reaches `await invoke("open_terminal")`,
\* whether or not the pane is still mounted, and the registry handles it
PaneOpensSession ==
    \E id \in work.opening :
       /\ work' = [work EXCEPT
                      !.opening = @ \ {id},
                      !.registry = RegistryOpen(@, id).registry,
                      !.log.op = "openTerminal",
                      !.log.arg = id,
                      !.log.sent = { Command("open_terminal", id) },
                      !.log.closed = {}]
       /\ UNCHANGED << gitVars, paneVars, shell >>

WorkNext ==
    \/ SetActiveProject
    \/ StartCreateProject
    \/ CommitCreateProject
    \/ CancelCreateProject
    \/ StartRenameProject
    \/ CommitRenameProject
    \/ CancelRenameProject
    \/ DeleteProject
    \/ CreateTab
    \/ SelectTab
    \/ StartRenameTab
    \/ CommitRenameTab
    \/ CancelRenameTab
    \/ CloseTab
    \/ PaneOpensSession

WorkSpec == Init /\ [][WorkNext]_vars

----------------------------------------------------------------------------
(* Properties *)

PanelRefs ==
    << open, repoPath, loading, loadingDiff, error, status, selectedPath,
       diffContainer, lastRepoPath, actionPath, actionLoading, commitLoading,
       commitMessage, remoteLoading, remoteAction, branchLoading,
       checkoutLoading, branches, currentBranch, branchModalOpen, branchQuery,
       diffInstance, refreshInFlight, refreshQueued, diffToken >>

\* the commands in flight, without the bookkeeping field
Issued(q) == [i \in 1..Len(q) |-> [q[i] EXCEPT !.id = 0]]

InFlight(cmd) == { i \in 1..Len(inflight) : inflight[i].cmd = cmd }

CycleFrames == { i \in 1..Len(inflight) : inflight[i].inRefresh }

AtRest == diffInstance /\ ~refreshInFlight /\ ~refreshQueued

\* C1: a refresh() call that starts a cycle issues one git_status; when
\* k >= 1 more calls are made while that cycle is in flight and none later,
\* the burst issues exactly 2 git_status invocations, the second one in the
\* turn in which the first cycle ends.
C1_Coalescing ==
    /\ (refreshInFlight /\ hist.burstCycles = 0) => hist.burstStatus = 1
    /\ (hist.burstCycles = 1 /\ hist.burstExtra >= 1 /\ ~hist.burstLate)
          => hist.burstStatus = 2
    /\ (hist.burstCycles = 1 /\ hist.burstExtra = 0 /\ ~hist.burstLate)
          => hist.burstStatus = 1

C1_Witness ==
    /\ AtRest
    /\ hist.burstExtra = 3
    /\ ~hist.burstLate
    /\ hist.burstStatus = 2

\* C2: the diff pane is written by the completion of a git_diff request only
\* when that request is the one issued last: its token is the current
\* diffToken and no request in flight has a larger one.
C2_OnlyLatestDiffShown ==
    [][ (ev'.op = "diffDone" /\ diffContainer' # diffContainer)
           => /\ ev'.token = diffToken
              /\ \A i \in InFlight("git_diff") : inflight[i].token <= ev'.token
      ]_vars

\* a superseded request completed after the one that superseded it, and the
\* pane shows a patch
C2_Witness ==
    /\ ev.op = "diffDone"
    /\ ev.token < diffToken
    /\ InFlight("git_diff") = {}
    /\ ~loadingDiff
    /\ diffContainer.rendered # NULL

\* C3: at most one refresh cycle of the panel is running: at most one
\* command in flight has a refresh() frame suspended on it, so at most one
\* git_status invocation is outstanding, and none while the git_branches or
\* the git_diff of a cycle is.
C3_OneCycleAtATime ==
    /\ Cardinality(CycleFrames) <= 1
    /\ Cardinality(InFlight("git_status")) <= 1
    /\ CycleFrames # {} => refreshInFlight

C3_Witness ==
    /\ refreshQueued
    /\ hist.burstExtra >= 2
    /\ \E i \in InFlight("git_diff") : inflight[i].inRefresh

StaleDiffDone == ev'.op = "diffDone" /\ ev'.token # diffToken

C6_QueuedRefreshOnlyQueues ==
    [][ ev'.refreshCall = "queued"
           => /\ refreshInFlight /\ refreshInFlight'
              /\ refreshQueued'
              /\ UNCHANGED << status, selectedPath, loading, error, diffToken >>
              /\ IF ev'.op = "commandDone"
                 THEN /\ \E i \in 1..Len(inflight) :
                            /\ inflight[i].cmd = ev'.cmd
                            /\ Issued(inflight') = Issued(RemoveAt(inflight, i))
                            /\ ready' = HandlerReady(inflight[i].caller)
                      /\ ready'.kind = "handler"
                 ELSE /\ Issued(inflight') = Issued(inflight)
                      /\ ready' = Idle
      ]_vars

C6_Witness ==
    /\ ev.refreshCall = "queued"
    /\ ev.op = "commandDone"
    /\ ev.cmd = "git_commit"
    /\ refreshQueued
    /\ ready = HandlerReady("commitChanges")
    /\ loading

DiffTokens == { inflight[i].token : i \in InFlight("git_diff") }

\* C7 as stated: every loadDiff(path) call increments diffToken.
C7_Original ==
    [][ ev'.loadDiffCall # "none" => diffToken' = diffToken + 1 ]_vars

\* C7, amended: every loadDiff(path) call that issues git_diff increments
\* diffToken and captures the new value, which is larger than the token of
\* every earlier request; a call that returns before issuing (path not in
\* the current status) leaves diffToken as it is; the token never decreases.
C7_TokenIncreasing ==
    [][ /\ diffToken' >= diffToken
        /\ ev'.loadDiffCall = "issued"
              => /\ diffToken' = diffToken + 1
                 /\ Len(inflight') >= 1
                 /\ inflight'[Len(inflight')].cmd = "git_diff"
                 /\ inflight'[Len(inflight')].token = diffToken'
                 /\ \A t \in DiffTokens : t < diffToken'
        /\ ev'.loadDiffCall # "issued"
              => /\ diffToken' = diffToken
                 /\ DiffTokens' \subseteq DiffTokens
      ]_vars

C7_Witness ==
    /\ ev.loadDiffCall = "issued"
    /\ diffToken = 3
    /\ DiffTokens = {2, 3}

\* C8: no refresh() call is followed by more than one git_status
\* invocation, and when every invoked command completes a cycle in flight
\* leads to the coordinator at rest.
C8_ComesToRest ==
    /\ [](hist.sinceCall <= 1)
    /\ refreshInFlight ~> (~refreshInFlight /\ ~refreshQueued)

C8_Witness ==
    /\ AtRest
    /\ hist.burstExtra >= 2
    /\ hist.burstStatus = 2
    /\ hist.events = MaxLiveEvents
    /\ inflight = << >>

LoadingFlagCleared(cmd) ==
    CASE cmd \in {"git_stage", "git_unstage", "git_stage_all"} ->
            ~actionLoading' /\ actionPath' = NULL
      [] cmd = "git_commit" -> ~commitLoading'
      [] cmd \in {"git_fetch", "git_pull", "git_push"} ->
            ~remoteLoading' /\ remoteAction' = NULL
      [] cmd = "git_checkout" -> ~checkoutLoading'
      [] OTHER -> FALSE

\* C9: when a stage, unstage, stage-all, commit, fetch, pull, push or
\* checkout command fails, no command is issued in that turn (neither the
\* same one again nor a git_status), no refresh is started or queued, the
\* error message is stored and the loading flag of the operation is cleared.
C9_NoImplicitRetry ==
    [][ ev'.op = "commandFailed"
           => /\ ev'.cmd \in ActionCommands
              /\ \E i \in 1..Len(inflight) :
                    /\ inflight[i].cmd = ev'.cmd
                    /\ inflight' = RemoveAt(inflight, i)
              /\ UNCHANGED << refreshInFlight, refreshQueued, loading, status >>
              /\ ev'.refreshCall = "none"
              /\ error' \in {"git failed", Fallback([cmd |-> ev'.cmd])}
              /\ LoadingFlagCleared(ev'.cmd)
      ]_vars

C9_Witness ==
    /\ ev.op = "commandFailed"
    /\ ev.cmd = "git_push"
    /\ error = "Failed to push"
    /\ ~remoteLoading
    /\ inflight = << >>

HasStagedChange == \E i \in 1..Len(status.changes) : status.changes[i].staged

MayCommit ==
    /\ Trim(commitMessage) # << >>
    /\ status.present /\ HasStagedChange
    /\ ~commitLoading

\* C10: commitChanges(amend) issues git_commit, with the trimmed message,
\* exactly when the trimmed message is non-empty, the status has a staged
\* change and no commit is in flight, whatever amend is; otherwise it issues
\* no command and changes no state.
C10_CommitGuard ==
    [][ ev'.op = "commitChanges"
           => IF MayCommit
              THEN /\ Len(inflight') = Len(inflight) + 1
                   /\ SubSeq(inflight', 1, Len(inflight)) = inflight
                   /\ inflight'[Len(inflight')].cmd = "git_commit"
                   /\ inflight'[Len(inflight')].message = Trim(commitMessage)
                   /\ inflight'[Len(inflight')].message # << >>
                   /\ inflight'[Len(inflight')].repoPath = status.repoPath
                   /\ commitLoading'
              ELSE UNCHANGED << PanelRefs, inflight >>
      ]_vars

C10_Witness ==
    /\ ev.op = "commitChanges"
    /\ commitMessage = << " ", "x", " " >>
    /\ \E i \in InFlight("git_commit") :
          inflight[i].amend /\ inflight[i].message = << "x" >>

\* C11: switchBranch(b) issues no command and changes no state when the
\* trimmed b is the current branch name, when it is empty, when a checkout
\* is in flight or when there is no repository path; otherwise it issues
\* one git_checkout for the trimmed name, which differs from the current
\* branch, while no other git_checkout is in flight.
C11_CheckoutNoOp ==
    [][ ev'.op = "switchBranch"
           => IF \/ Trim(ev'.arg) = currentBranch
                 \/ Trim(ev'.arg) = << >>
                 \/ checkoutLoading
                 \/ activeRepoPath(Panel) = NULL
              THEN UNCHANGED << PanelRefs, inflight >>
              ELSE /\ InFlight("git_checkout") = {}
                   /\ Len(inflight') = Len(inflight) + 1
                   /\ SubSeq(inflight', 1, Len(inflight)) = inflight
                   /\ inflight'[Len(inflight')].cmd = "git_checkout"
                   /\ inflight'[Len(inflight')].branch = Trim(ev'.arg)
                   /\ inflight'[Len(inflight')].branch # currentBranch
                   /\ checkoutLoading'
      ]_vars

\* the row of the current branch, written with a blank after the name, was
\* clicked while nothing was in flight
C11_Witness ==
    /\ ev.op = "switchBranch"
    /\ ev.arg = << "m", " " >>
    /\ currentBranch = << "m" >>
    /\ ~checkoutLoading
    /\ status.present
    /\ inflight = << >>

\* a step that invokes git_status: a refresh() call that starts a cycle, or
\* the follow-up cycle started by the finally block
StatusIssued ==
    \/ ev'.refreshCall = "started"
    \/ hist'.burstStatus = hist.burstStatus + 1

\* the path resolved by the last successful git_status, if any
LastResolvedPath == IF status'.present THEN status'.repoPath ELSE NULL

\* C15: every git_status request carries the explicit path when
\* props.repoPath is non-null, else the path resolved by the last successful
\* git_status, and no path when neither exists; a path that was supplied
\* but never resolved is not used as the fallback.
C15_EffectiveRepoPath ==
    [][ StatusIssued
           => /\ Len(inflight') >= 1
              /\ inflight'[Len(inflight')].cmd = "git_status"
              /\ inflight'[Len(inflight')].repoPath =
                    IF repoPath' # NULL THEN repoPath' ELSE LastResolvedPath
      ]_vars

FailedStatusDone == ev'.op = "statusDone" /\ ~hist'.lastStatusOk

StatusErrors == { "git failed", "Failed to load git status" }

StatusReplacedOnly ==
    status' # status
       => /\ ev'.op = "statusDone"
          /\ hist'.lastStatusOk
          /\ status' \in StatusResponses
          /\ lastRepoPath' = status'.repoPath

\* C16 as stated: status changes only by being replaced with the response of
\* a successful git_status, and a failed git_status leaves status,
\* selectedPath and the branch list as they were and stores the error.
C16_Original ==
    [][ /\ StatusReplacedOnly
        /\ FailedStatusDone
              => /\ UNCHANGED << status, selectedPath, branches, currentBranch >>
                 /\ error' \in StatusErrors
      ]_vars

\* C16, amended: status changes only by being replaced with the response of
\* a successful git_status; a failed git_status leaves status, selectedPath
\* and the branch list as they were, and the error message is stored unless
\* a refresh was queued during the failed cycle: then the follow-up cycle
\* starts in the same job and resets error to null.
C16_SnapshotReplacedOnly ==
    [][ /\ StatusReplacedOnly
        /\ FailedStatusDone
              => /\ UNCHANGED << status, selectedPath, branches, currentBranch >>
                 /\ IF refreshQueued
                    THEN /\ error' = NULL
                         /\ refreshInFlight' /\ ~refreshQueued'
                         /\ \E i \in 1..Len(inflight') :
                               inflight'[i].cmd = "git_status"
                    ELSE /\ error' \in StatusErrors
                         /\ ~refreshInFlight'
      ]_vars

\* git_status failed while a status with a selection and a branch list was
\* shown
C16_Witness ==
    /\ ev.op = "statusDone"
    /\ ~hist.lastStatusOk
    /\ status.present
    /\ selectedPath # NULL
    /\ branches # << >>
    /\ error \in StatusErrors

FailedBranchesDone == ev'.op = "branchesDone" /\ ev'.arg = "rejected"

\* C17: a failure of git_branches does not fail the cycle: the status that
\* git_status returned stays stored, no error is set, the branch list
\* becomes empty and the current branch name the empty string, and
\* refresh() goes on after `await loadBranches(...)` as after a success.
C17_BranchesBestEffort ==
    [][ /\ FailedBranchesDone
              => /\ UNCHANGED << status, error, selectedPath, loading,
                                 refreshInFlight, refreshQueued >>
                 /\ status.present
                 /\ branches' = << >> /\ currentBranch' = << >>
                 /\ ~branchLoading'
                 /\ refreshInFlight
                 /\ ready' = [kind |-> "afterBranches", caller |-> ready'.caller,
                              nextStatus |-> status]
        /\ (ev.op = "branchesDone" /\ ev.arg = "rejected")
              => /\ ev'.op = "refreshResumes"
                 /\ status' = status
                 /\ error' \in {error, NULL}
                 /\ \/ ~refreshInFlight'
                    \/ \E i \in 1..Len(inflight') :
                          /\ inflight'[i].inRefresh
                          /\ inflight'[i].cmd \in {"git_diff", "git_status"}
      ]_vars

\* git_branches failed in a cycle whose git_status answered with changes,
\* and the cycle went on to load the diff of the selection
C17_Witness ==
    /\ ev.op = "refreshResumes"
    /\ branches = << >> /\ currentBranch = << >>
    /\ status.present
    /\ error = NULL
    /\ selectedPath # NULL
    /\ \E i \in InFlight("git_diff") : inflight[i].inRefresh

\* the positions of status.changes whose entry carries a flag
StagedAt == { i \in 1..Len(status.changes) : status.changes[i].staged }
UnstagedAt == { i \in 1..Len(status.changes) : status.changes[i].unstaged }
UntrackedAt == { i \in 1..Len(status.changes) : status.changes[i].untracked }

\* the k-th position of I, counted from the start of status.changes
NthOf(I, k) == CHOOSE i \in I : Cardinality({ j \in I : j < i }) = k - 1

\* group lists the entries at the positions I, in the order of status.changes
ListsExactly(group, I) ==
    /\ Len(group) = Cardinality(I)
    /\ \A k \in 1..Len(group) : group[k] = status.changes[NthOf(I, k)]

\* C18: the Staged group is exactly the entries with staged = true, the
\* Unstaged group exactly those with unstaged = true or untracked = true,
\* each in the order of status.changes, so an entry that is both staged and
\* unstaged is in both groups; the three counts are the numbers of entries
\* carrying the flag.
C18_GroupsByFlag ==
    /\ ListsExactly(stagedChanges(Panel), StagedAt)
    /\ ListsExactly(unstagedChanges(Panel), UnstagedAt \cup UntrackedAt)
    /\ stagedCount(Panel) = Cardinality(StagedAt)
    /\ unstagedCount(Panel) = Cardinality(UnstagedAt)
    /\ untrackedCount(Panel) = Cardinality(UntrackedAt)
    /\ \A i \in StagedAt \cap UnstagedAt :
          /\ \E k \in 1..Len(stagedChanges(Panel)) :
                stagedChanges(Panel)[k] = status.changes[i]
          /\ \E k \in 1..Len(unstagedChanges(Panel)) :
                unstagedChanges(Panel)[k] = status.changes[i]

\* the status has an entry that is staged and unstaged, and an untracked one
C18_Witness ==
    /\ status.present
    /\ StagedAt \cap UnstagedAt # {}
    /\ UntrackedAt # {}
    /\ Len(unstagedChanges(Panel)) = 2
    /\ Len(stagedChanges(Panel)) = 1

----------------------------------------------------------------------------
(* Terminal pane: output per session and in order *)

\* what a pane of tab `id` is to write for the events `events`, in order
RECURSIVE OutputOf(_, _)
OutputOf(events, id) ==
    IF events = << >> THEN << >>
    ELSE LET e == Head(events)
             own == IF e.tabId # id THEN << >>
                    ELSE IF e.event = "terminal-data" THEN << e.data >>
                    ELSE << ExitNotice >>
         IN own \o OutputOf(Tail(events), id)

\* C12: what the pane has written to its terminal is exactly the data of
\* the terminal-data events carrying its own tab id (and the exit notice of
\* its own terminal-exit event), in the order in which the events arrived;
\* events of another session leave no trace on it.
C12_PerSessionInOrder == plog.screen = OutputOf(plog.arrived, pane.tabId)

\* two different chunks of the own session were written, with an event of
\* the other session delivered before the second one
C12_Witness ==
    /\ Len(plog.screen) = 2
    /\ plog.screen[1] # plog.screen[2]
    /\ Len(plog.arrived) = 3
    /\ plog.arrived[2].tabId = OtherTab
    /\ plog.arrived[3].event = "terminal-data"

----------------------------------------------------------------------------
(* Terminal pane: commands after the exit of the session *)

\* C13: once the pane has observed the terminal-exit event of its session,
\* no job of the pane invokes write_terminal or resize_terminal.
C13_QuietAfterExit ==
    [][plog.exitSeen =>
          \A i \in 1..Len(plog'.sent) :
             plog'.sent[i].cmd \notin {"write_terminal", "resize_terminal"}]_vars

----------------------------------------------------------------------------
(* Timers and teardown *)

\* C14: once the pane has been unmounted no resize-debounce timer of it is
\* pending and no job invokes resize_terminal for it, and once the shell
\* has been unmounted the polling interval is released and does not fire.
C14_NoOrphanedTimer ==
    [][/\ pane'.unmounted # "no" => pane'.timers = {}
       /\ pane.unmounted # "no" =>
             \A i \in 1..Len(plog'.sent) : plog'.sent[i].cmd # "resize_terminal"
       /\ shell'.mounted = "unmounted" => ~shell'.interval
       /\ shell.mounted = "unmounted" => shell'.log.op # "pollTick"]_vars

----------------------------------------------------------------------------
(* Application shell: the working-directory lookup is advisory *)

\* C19: the promise of syncActiveTerminalCwd() never rejects; the job that
\* handles a failed terminal_cwd leaves activeTerminalCwd null; and a call
\* made while there is no active tab leaves it null without invoking a
\* command.
C19_CwdLookupNeverErrors ==
    /\ shell.log.outcome # "rejected"
    /\ shell.log.failed =>
          /\ shell.activeTerminalCwd = NULL
          /\ shell.log.outcome = "resolved"
    /\ (shell.log.op \in {"onMounted", "pollTick", "watchActiveTab"}
          /\ shell.activeTab = NULL) =>
          /\ shell.activeTerminalCwd = NULL
          /\ shell.log.outcome = "resolved"
          /\ shell.log.sent = << >>

\* a terminal_cwd has just failed while a later one is still in flight
C19_Witness ==
    /\ shell.log.failed
    /\ shell.activeTerminalCwd = NULL
    /\ Len(shell.requests) = 1

----------------------------------------------------------------------------
(* Session registry *)

\* C20: the registry never holds two sessions with the same id, whatever
\* the order in which concurrent open and close commands are handled; an
\* open for an id that is present is answered with AlreadyOpen and leaves
\* the registry, the existing session included, as it was.
C20_OneSessionPerId ==
    [][/\ \A i, j \in 1..Len(backend'.registry) :
             backend'.registry[i].id = backend'.registry[j].id => i = j
       /\ \A id \in Tabs :
             (/\ \/ plog'.op = "openHandled" /\ id = pane.tabId
                 \/ plog'.op = "otherOpen" /\ id = OtherTab
              /\ Present(backend.registry, id)) =>
                 /\ plog'.result = "AlreadyOpen"
                 /\ backend'.registry = backend.registry]_vars

\* an open of the pane was refused while its close was still to be handled
C20_Witness ==
    /\ plog.op = "openHandled"
    /\ plog.result = "AlreadyOpen"
    /\ "close_terminal" \in backend.calls
    /\ StateOf(backend.registry, pane.tabId) = "Running"

\* C21: close(id) always succeeds and leaves the id absent; on an absent
\* id it changes nothing and performs no process or pty operation; closing
\* once more after any close changes nothing.
C21_CloseIdempotent ==
    [][\A id \in Tabs :
          (\/ plog'.op = "closeHandled" /\ id = pane.tabId
           \/ plog'.op = "otherClose" /\ id = OtherTab) =>
             /\ plog'.result = "ok"
             /\ ~Present(backend'.registry, id)
             /\ ~Present(backend.registry, id) =>
                   /\ backend'.registry = backend.registry
                   /\ plog'.ptyOp = "none"
             /\ RegistryClose(backend'.registry, id) =
                   [result |-> "ok", registry |-> backend'.registry,
                    ptyOp |-> "none"]]_vars

\* the close of the pane found its id absent while the session of the
\* other pane was in the registry
C21_Witness ==
    /\ plog.op = "closeHandled"
    /\ plog.result = "ok"
    /\ plog.ptyOp = "none"
    /\ Present(backend.registry, OtherTab)

----------------------------------------------------------------------------
(* Terminal pane: the mount sequence and the session *)

\* C24: the job that unmounts the pane invokes close_terminal for its tab
\* id, and no job invokes open_terminal once the pane has been unmounted,
\* so that every session the pane opens is closed by it.
C24_OpenedSessionClosed ==
    [][/\ (pane.unmounted = "no" /\ pane'.unmounted # "no") =>
             \E i \in 1..Len(plog'.sent) :
                plog'.sent[i] = Command("close_terminal", pane.tabId)
       /\ pane.unmounted # "no" =>
             \A i \in 1..Len(plog'.sent) : plog'.sent[i].cmd # "open_terminal"]_vars

\* C25: when the pane invokes open_terminal, its terminal-data listener
\* and its terminal-exit listener are registered on the event channel, and
\* from then on every event published for its session is delivered to it,
\* as long as the pane is mounted.
C25_ListenersBeforeOpen ==
    [][/\ (\E i \in 1..Len(plog'.sent) : plog'.sent[i].cmd = "open_terminal") =>
             backend'.listeners = {"terminal-data", "terminal-exit"}
       /\ (/\ plog'.published.tabId = pane.tabId
           /\ pane.pc \in {"open", "done", "failed"}
           /\ pane.unmounted = "no") =>
             /\ plog'.arrived = Append(plog.arrived, plog'.published)]_vars

----------------------------------------------------------------------------
(* Terminal pane: debounced resize *)

\* C26: at most one debounce timer of the pane is pending, it is the one
\* the pane holds and it carries the size of the last resize event; when
\* it fires, exactly one resize_terminal is invoked, with that size, and
\* no timer is left.
C26_ResizeDebounced ==
    [][/\ Cardinality(pane'.timers) <= 1
       /\ \A t \in pane'.timers :
             t.id = pane'.resizeDebounce /\ t.size = pane'.size
       /\ plog'.op = "resizeTimer" =>
             /\ plog'.sent = << [Command("resize_terminal", pane.tabId)
                                   EXCEPT !.size = pane.size] >>
             /\ pane'.timers = {}
             /\ pane'.resizeDebounce = 0]_vars

\* the timer of a second resize event is pending, the first one having
\* been cancelled before it expired
C26_Witness ==
    /\ pane.timers = {[id |-> 2, size |-> "80x24"]}
    /\ pane.resizeDebounce = 2
    /\ pane.unmounted = "no"

----------------------------------------------------------------------------
(* Git panel: the diff pane at rest *)

\* C27: whenever no refresh cycle is in flight, no git_diff is outstanding
\* and no continuation is waiting to run, a patch displayed in the diff
\* pane is the patch of selectedPath; with selectedPath = null no patch is
\* displayed.
C27_PatchOfSelectedPath ==
    (/\ ~refreshInFlight
     /\ InFlight("git_diff") = {}
     /\ ready = Idle
     /\ diffContainer.rendered # NULL) =>
        diffContainer.rendered = selectedPath

\* C28: the response of a terminal_cwd request that was overtaken by the
\* response of a later request does not change activeTerminalCwd; and when
\* a response leaves no request outstanding, it is the response of the
\* request issued last, which was made for the tab that is active.
C28_CwdResponseOrder ==
    [][/\ shell'.log.late =>
             shell'.activeTerminalCwd = shell.activeTerminalCwd
       /\ (shell'.log.op = "cwdDone" /\ shell'.requests = << >>) =>
             /\ ~shell'.log.late
             /\ shell'.log.forTab = shell'.activeTab]_vars

----------------------------------------------------------------------------
(* Git panel: loading flags of the stage and remote actions *)

\* C29: while a git_stage, git_unstage or git_stage_all command of the
\* panel is outstanding, actionLoading is true and actionPath is not null.
C29_ActionFlagsWhileOutstanding ==
    (\E i \in 1..Len(inflight) :
        inflight[i].cmd \in {"git_stage", "git_unstage", "git_stage_all"}) =>
       actionLoading /\ actionPath # NULL

\* C30: at most one git_fetch, git_pull or git_push of the panel is
\* outstanding; remoteAction is non-null exactly while remoteLoading is
\* true; and a runRemoteAction call made while remoteLoading is true
\* invokes nothing and changes no ref of the panel.
C30_OneRemoteAction ==
    [][/\ Cardinality({ i \in 1..Len(inflight') :
                          inflight'[i].cmd \in {"git_fetch", "git_pull", "git_push"} }) <= 1
       /\ (remoteAction' # NULL) <=> remoteLoading'
       /\ (\E i \in 1..Len(inflight') :
              inflight'[i].cmd \in {"git_fetch", "git_pull", "git_push"}) =>
             remoteLoading'
       /\ (ev'.op = "runRemoteAction" /\ remoteLoading) =>
             /\ inflight' = inflight
             /\ UNCHANGED PanelRefs]_vars

\* runRemoteAction was called while a remote command was outstanding
C30_Witness ==
    /\ ev.op = "runRemoteAction"
    /\ ev.cmd = NULL
    /\ remoteLoading
    /\ \E i \in 1..Len(inflight) :
          inflight[i].cmd \in {"git_fetch", "git_pull", "git_push"}

----------------------------------------------------------------------------
(* Git panel: flags of the refresh coordinator and of loadDiff *)

\* C31: between the jobs of the panel, refreshQueued implies
\* refreshInFlight, and the loading indicator equals refreshInFlight.
C31_QueuedOnlyInFlight ==
    /\ refreshQueued => refreshInFlight
    /\ loading = refreshInFlight

\* a refresh() call was queued behind the follow-up cycle of a burst
C31_Witness ==
    /\ ev.refreshCall = "queued"
    /\ refreshQueued
    /\ refreshInFlight
    /\ loading
    /\ hist.burstCycles = 1

\* C32: loadingDiff is true exactly while the git_diff request issued last
\* (the one that captured the current diffToken) is outstanding.  The
\* completion of a superseded request leaves it as it is.
C32_LoadingDiffOfLatest ==
    /\ loadingDiff <=> \E i \in InFlight("git_diff") : inflight[i].token = diffToken
    /\ (ev.op = "diffDone" /\ ev.token = diffToken) => ~loadingDiff

\* a superseded request completed while the one that superseded it is
\* outstanding
C32_Witness ==
    /\ ev.op = "diffDone"
    /\ ev.token # diffToken
    /\ loadingDiff
    /\ error = NULL
    /\ ready = Idle
    /\ \E i \in InFlight("git_diff") : inflight[i].token = diffToken

\* C33: the handler of a git_stage, git_unstage, git_stage_all, git_commit,
\* git_fetch, git_pull, git_push or git_checkout command that succeeded
\* calls refresh() in the job of the completion; the call issues git_status
\* in that job when no cycle is in flight and is queued otherwise, and when
\* every invoked command completes a git_status invocation issued at or
\* after that call follows.
C33_StatusAfterAction ==
    /\ [][ev'.op = "commandDone" =>
             /\ ev'.cmd \in ActionCommands
             /\ ev'.refreshCall = (IF refreshInFlight THEN "queued" ELSE "started")
             /\ ev'.refreshCall = "started" => hist'.sinceCall = 1
             /\ ev'.refreshCall = "queued" => refreshQueued']_vars
    /\ (ev.op = "commandDone") ~> (hist.sinceCall >= 1)

\* a stage command succeeded while a refresh cycle was in flight
C33_Witness ==
    /\ ev.op = "commandDone"
    /\ ev.cmd = "git_stage"
    /\ ev.refreshCall = "queued"
    /\ refreshQueued
    /\ hist.sinceCall = 0

\* C34: refresh(), once git_status has succeeded and loadBranches has
\* returned, sets selectedPath to null when the new change list is empty,
\* keeps a selection that is in the new list and otherwise selects the
\* first entry; and when the cycle completes selectedPath is null if the
\* change list of the status is empty and the path of one of its entries
\* otherwise.
C34_SelectionInNewList ==
    [][/\ (ev'.op = "refreshResumes" /\ ready.kind = "afterBranches") =>
             LET cs == ready.nextStatus.changes
             IN selectedPath' =
                   IF Len(cs) = 0 THEN NULL
                   ELSE IF FindChange(cs, selectedPath) # 0 THEN selectedPath
                   ELSE cs[1].path
       /\ (/\ ev'.op = "refreshResumes"
           /\ \A i \in 1..Len(inflight') :
                 inflight'[i].inRefresh => inflight'[i].cmd = "git_status") =>
             /\ status'.present
             /\ IF Len(status'.changes) = 0 THEN selectedPath' = NULL
                ELSE FindChange(status'.changes, selectedPath') # 0]_vars

\* a cycle completed with the second entry of the new list selected
C34_Witness ==
    /\ ev.op = "refreshResumes"
    /\ ~refreshInFlight
    /\ Len(status.changes) = 2
    /\ selectedPath = status.changes[2].path
    /\ diffContainer.rendered = selectedPath
    /\ hist.events = 2
    /\ diffToken = 3

----------------------------------------------------------------------------
(* Git panel: the repository path of the status shown *)

\* C35: an open panel with nothing in flight, nothing queued and no
\* continuation ready has issued its last git_status request with the
\* current non-null value of the repoPath prop: every change of the prop to
\* a non-null value, made while the panel was open or closed, has been
\* followed by a git_status request carrying that value or a later one.
C35_StatusOfCurrentRepoPath ==
    (/\ diffInstance
     /\ open
     /\ repoPath # NULL
     /\ ~refreshInFlight
     /\ ~refreshQueued
     /\ inflight = << >>
     /\ ready = Idle) => hist.statusPath = repoPath

----------------------------------------------------------------------------
(* Workspace: panes, sessions and the shape of the state *)

\* C36: after every handler a terminal pane is mounted for exactly the tabs
\* of the workspace state, one per tab id, whatever their project; changing
\* the active project or the active tab invokes no command, leaves every
\* pane mounted and every session open; closing a tab unmounts the pane of
\* that tab only, invokes close_terminal for that tab id only and removes
\* that session and no other from the registry.
C36_PanesFollowTabs ==
    [][/\ work'.panes =
             { work'.state.tabs[i].id : i \in 1..Len(work'.state.tabs) }
       /\ Cardinality(work'.panes) = Len(work'.state.tabs)
       /\ work'.log.op \in {"setActiveProject", "selectTab"} =>
             /\ work'.log.sent = {}
             /\ work'.registry = work.registry
             /\ work'.panes = work.panes
             /\ work'.opening = work.opening
       /\ work'.log.op = "closeTab" =>
             /\ work'.log.sent = { Command("close_terminal", work'.log.arg) }
             /\ work'.log.closed \subseteq { work'.log.arg }
             /\ work'.registry =
                   SelectSeq(work.registry, LAMBDA s : s.id # work'.log.arg)
             /\ work.panes \ work'.panes = { work'.log.arg }]_vars

\* a tab of the second project was closed, its session was terminated and
\* the session of the tab of the first project is still open
C36_Witness ==
    /\ work.log.op = "closeTab"
    /\ work.log.closed = { work.log.arg }
    /\ Len(work.state.projects) = 2
    /\ work.state.activeProjectId = work.state.projects[2].id
    /\ Present(work.registry, work.state.tabs[1].id)
    /\ work.state.tabs[1].projectId = work.state.projects[1].id

\* C37: there is at least one project, every project has at least one tab,
\* every tab belongs to a project of the state, and activeTabId is the id
\* of a tab of the active project, which is a project of the state.
C37_WorkspaceWellFormed ==
    LET projects == work.state.projects
        tabs == work.state.tabs
    IN /\ Len(projects) >= 1
       /\ \A i \in 1..Len(projects) :
             \E j \in 1..Len(tabs) : tabs[j].projectId = projects[i].id
       /\ \A j \in 1..Len(tabs) :
             \E i \in 1..Len(projects) : projects[i].id = tabs[j].projectId
       /\ \E i \in 1..Len(projects) : projects[i].id = work.state.activeProjectId
       /\ \E j \in 1..Len(tabs) :
             /\ tabs[j].id = work.state.activeTabId
             /\ tabs[j].projectId = work.state.activeProjectId

\* the first project was deleted after the last tab of the second one had
\* been closed and replaced
C37_Witness ==
    /\ work.log.op = "deleteProject"
    /\ Len(work.state.projects) = 1
    /\ work.state.projects[1].id # uid("project", 1)
    /\ Len(work.state.tabs) = 1
    /\ work.state.tabs[1].id = uid("tab", 5)
    /\ work.state.activeTabId = uid("tab", 5)

----------------------------------------------------------------------------
(* Git panel: stage-all with nothing to stage, and the diff request *)

\* C38: stageAllUnstaged, called when the status has no unstaged and no
\* untracked change or when a stage / unstage action is marked in progress
\* (actionLoading), invokes no command and changes no ref of the panel.
C38_StageAllNothingToDo ==
    [][(/\ ev'.op = "stageAllUnstaged"
        /\ \/ actionLoading
           \/ ~status.present
           \/ \A i \in 1..Len(status.changes) :
                 ~status.changes[i].unstaged /\ ~status.changes[i].untracked) =>
          /\ inflight' = inflight
          /\ UNCHANGED PanelRefs]_vars

\* stage-all was called while the stage of a file was in progress and the
\* status had an unstaged change
C38_Witness ==
    /\ ev.op = "stageAllUnstaged"
    /\ actionLoading
    /\ actionPath = "a"
    /\ \E i \in 1..Len(inflight) : inflight[i].cmd = "git_stage"
    /\ \A i \in 1..Len(inflight) : inflight[i].cmd # "git_stage_all"
    /\ \E i \in 1..Len(status.changes) : status.changes[i].unstaged

\* C39: a git_diff request is issued only by a loadDiff call; it carries
\* the repoPath of the status held, the path and the untracked flag of the
\* entry of that status with the requested path, and staged = false, also
\* for a file of the Staged group; a loadDiff call for a path with no entry
\* in the status held issues no request.
C39_DiffRequestArguments ==
    [][/\ ev'.loadDiffCall = "issued" =>
             LET inv == inflight'[Len(inflight')]
             IN /\ inv.cmd = "git_diff"
                /\ status'.present
                /\ inv.repoPath = status'.repoPath
                /\ inv.path = selectedPath'
                /\ \E i \in 1..Len(status'.changes) :
                      /\ status'.changes[i].path = inv.path
                      /\ status'.changes[i].untracked = inv.untracked
                      /\ \A j \in 1..(i - 1) : status'.changes[j].path # inv.path
                /\ inv.staged = FALSE
       /\ ev'.loadDiffCall = "returned" =>
             /\ \A i \in 1..Len(status'.changes) :
                   status'.changes[i].path # selectedPath'
             /\ Cardinality(InFlight("git_diff")') <= Cardinality(InFlight("git_diff"))
       /\ ev'.loadDiffCall = "none" =>
             Cardinality(InFlight("git_diff")') <= Cardinality(InFlight("git_diff"))
      ]_vars

\* the diff of a file of the Staged group was requested
C39_Witness ==
    /\ ev.op = "pickFile"
    /\ ev.loadDiffCall = "issued"
    /\ \E i \in 1..Len(status.changes) :
          /\ status.changes[i].path = selectedPath
          /\ status.changes[i].staged
    /\ inflight[Len(inflight)].cmd = "git_diff"
    /\ inflight[Len(inflight)].path = selectedPath
    /\ ~inflight[Len(inflight)].staged

====
